---- MODULE Spec2Model ----
(***************************************************************************)
(* A model of the render compute engine of rustyrender: the render entry   *)
(* point (renderer/mod.rs), the three dispatch strategies                  *)
(* (renderer/execute/cpurender.rs), the accelerated facades                *)
(* (renderer/execute/gpurender.rs), the axis aligned bounding box          *)
(* (renderer/core/aabb.rs) and the scene region (renderer/scene/world.rs). *)
(*                                                                         *)
(* Floats: a colour channel is an integer number of thousandths; a box     *)
(* coordinate is an integer or one of the two infinities PosInf, NegInf.   *)
(* NaN coordinates are outside the model.                                   *)
(***************************************************************************)
EXTENDS Integers, Sequences, FiniteSets, TLC

VARIABLES
    args,        \* the arguments of the call under way, the build and the machine
    context,     \* the RenderContext of the call
    calls,       \* the functions entered by the call, in order
    pixels,      \* the caller-owned output buffer
    writes,      \* per byte index of the buffer: who wrote it, in order
    tasks,       \* the workers: rayon band tasks or crossbeam column threads
    chan,        \* the mpsc channel of render_threaded_naive: messages in flight
    pc,          \* where the dispatching thread is
    n,           \* the spawn loop's counter in render_threaded_naive
    received,    \* the iterations done by the collection loop
    op_calls,    \* how often the pixel operator was invoked
    result,      \* what the call returned
    bbox,        \* an AABB under a sequence of expand calls
    operands,    \* the boxes handed to expand
    region,      \* a Region under construction
    probe        \* a call of a function of the scene or of the integrator: its
                 \* arguments and, once it has returned, what it returned

renderVars == <<args, context, calls, pixels, writes, tasks, chan, pc, n,
                received, op_calls, result>>
boxVars == <<bbox, operands>>
vars == <<args, context, calls, pixels, writes, tasks, chan, pc, n,
          received, op_calls, result, bbox, operands, region, probe>>

-----------------------------------------------------------------------------
(* Bounds of the model *)

MaxW == 2          \* widths 1..MaxW are rendered pixel by pixel
MaxH == 2          \* heights 1..MaxH are rendered pixel by pixel
MaxCores == 2      \* num_cpus::get() ranges over 1..MaxCores

(* Program constants *)

MaxDimension == 4096   \* renderer/mod.rs: bounds.0 > 4096 || bounds.1 > 4096
Scale == 1000          \* a channel value c stands for the float c / 1000

Min(a, b) == IF a < b THEN a ELSE b

-----------------------------------------------------------------------------
(* renderer/core/mod.rs: clamp, convert_pixel *)

\* floor(256 * sqrt(c / Scale)) for 0 <= c <= Scale
FloorSqrt256(c) ==
    CHOOSE b \in 0..256 : /\ b * b * Scale <= 65536 * c
                          /\ (b + 1) * (b + 1) * Scale > 65536 * c

\* A conversion that clamps to [0, 1]
ConvertChannelToOne(c) ==
    IF c < 0 THEN 0
    ELSE IF c > Scale THEN 256
    ELSE FloorSqrt256(c)

\* (clamp(f32::sqrt(c), 0.0, 0.999) * 256.0) as u8.  sqrt of a negative is NaN,
\* which clamp returns unchanged (both comparisons are false) and `as u8`
\* turns into 0; sqrt(c) > 0.999 iff c > 0.998001.
ConvertChannel(c) ==
    IF c < 0 THEN 0
    ELSE IF c * Scale > 999 * 999 THEN (999 * 256) \div Scale
    ELSE FloorSqrt256(c)

convert_pixel(pixel) ==
    <<ConvertChannel(pixel[1]), ConvertChannel(pixel[2]), ConvertChannel(pixel[3])>>

-----------------------------------------------------------------------------
(* The pixel operators *)

\* cpurender.rs tests: Color::new(0.013 * x, 0.017 * y, 0.21)
render_test_pixel(x, y) == <<13 * x, 17 * y, 210>>

\* render_op.rs: the mean of `samples` random draws of ray_color_it.  Within one
\* call the draws are fixed by `seed`, and the operator is a function of (x, y).
render_pixel(seed, x, y) ==
    IF seed = 0 THEN <<Scale, Scale, Scale>>
    ELSE <<(250 * (x + y + seed)) % (Scale + 1), 700, (333 * (x + 1)) % (Scale + 1)>>

\* The call's operator render_op(context, world, x, y), of type RenderPixelOp.
RenderOp(a, x, y) ==
    IF a.render_op = "render_test_pixel" THEN render_test_pixel(x, y)
    ELSE render_pixel(a.seed, x, y)

\* The operator panics at the pixel a.panic_at (a defect or a system failure
\* inside the worker); NoPanic is no pixel.
NoPanic == <<>>
OpPanics(a, x, y) == a.panic_at = <<x, y>>

-----------------------------------------------------------------------------
(* Results *)

NoResult == [kind |-> "none", error |-> "none", cause |-> "none"]
Ok == [kind |-> "Ok", error |-> "none", cause |-> "none"]
Panic == [kind |-> "panic", error |-> "none", cause |-> "none"]
Err(e) == [kind |-> "Err", error |-> e, cause |-> "none"]

\* renderer/execute/error.rs
ComputeError == {"ThreadPanicked", "Communication", "IO"}
\* renderer/mod.rs: RendererError; ComputeError(#[from] ComputeError) wraps the cause
RendererError == {"ComputeError", "BufferSize", "InvalidParameter", "InvalidScene"}
ComputeEnv == {"Naive", "Multicore", "Cuda", "Opencl", "SimpleThreaded"}

\* The `?` of render and of the facades: a ComputeError e of a strategy reaches
\* the caller of render as RendererError::ComputeError(e).
Returned(a, r) ==
    IF a.entry = "render" /\ r.kind = "Err"
    THEN [kind |-> "Err", error |-> "ComputeError", cause |-> r.error]
    ELSE r

\* condition_check!(expression, error): Err(error) in a build without
\* debug_assertions, panic! in a build with them.
condition_check(a, error) == IF a.debug_assertions THEN Panic ELSE Err(error)

\* debug_check!(expression) fails: debug_assert! panics with debug_assertions,
\* and only logs without.
DebugCheckPanics(a, holds) == a.debug_assertions /\ ~holds

-----------------------------------------------------------------------------
(* The output buffer *)

Buffer(len) == [j \in 0..(len - 1) |-> 0]
NoWrites(len) == [j \in 0..(len - 1) |-> <<>>]

\* write_pixel!(pixel, out, location), out being the slice [off, off + len) of
\* the buffer: out[location * 3] = r; out[location * 3 + 1] = g;
\* out[location * 3 + 2] = b.  An index outside the slice panics, after the
\* stores before it.
Stored(len, location) ==
    IF location * 3 >= len THEN 0
    ELSE IF location * 3 + 1 >= len THEN 1
    ELSE IF location * 3 + 2 >= len THEN 2
    ELSE 3

write_pixel(buf, wr, off, len, location, rgb, who) ==
    LET first == off + location * 3
        k == Stored(len, location)
    IN  [pixels |-> [j \in DOMAIN buf |->
                        IF j >= first /\ j < first + k THEN rgb[j - first + 1] ELSE buf[j]],
         writes |-> [j \in DOMAIN wr |->
                        IF j >= first /\ j < first + k THEN Append(wr[j], who) ELSE wr[j]],
         panicked |-> k < 3]

-----------------------------------------------------------------------------
(* renderer/execute/context.rs and scene/camera.rs *)

NoContext == [film_width |-> 0, film_height |-> 0, start_x |-> 0, start_y |-> 0,
              end_x |-> 0, end_y |-> 0, built |-> FALSE]

\* RenderContext::new(Camera::new(config, film), max_depth, samples, tile)
RenderContext(film, tile) ==
    [film_width |-> film[1], film_height |-> film[2],
     start_x |-> tile[1], start_y |-> tile[2], end_x |-> tile[3], end_y |-> tile[4],
     built |-> TRUE]

\* The debug_check!s of RenderContext::new
ContextChecks(a, tile) ==
    /\ a.max_depth # 0
    /\ a.samples_per_pixel # 0
    /\ tile[1] # tile[3]
    /\ tile[2] # tile[4]

-----------------------------------------------------------------------------
(* renderer/execute/cpurender.rs: render_naive *)

Naive == [kind |-> "naive", id |-> 0]
Collector == [kind |-> "collector", id |-> 0]
Band(i) == [kind |-> "band", id |-> i]

\* Whether the model follows the call's pixel loops: both dimensions are
\* within the bounds of the model.  Beyond them a call is followed up to its
\* loops: render_naive stays at "loop", the workers of the others take no step.
Followed(a, ctx) ==
    /\ a.bounds[1] <= MaxW /\ a.bounds[2] <= MaxH
    /\ ctx.film_width <= MaxW /\ ctx.film_height <= MaxH

\* The buffer location render_naive gives the pixel (x, y): y * w + x, with
\* w = e_x - s_x.
NaiveLocation(ctx, x, y) == y * (ctx.end_x - ctx.start_x) + x

\* for y in s_y..e_y { for x in s_x..e_x { render_op; write_pixel! } }, from the
\* iteration (x, y) on.  A panic of the operator or of an index ends the loop.
\* One iteration that does not panic in the operator: render_op, then
\* write_pixel!(pixel, pixels, location).
NaiveWrite(a, ctx, st, x, y) ==
    LET w == write_pixel(st.pixels, st.writes, 0, a.len,
                         NaiveLocation(ctx, x, y),
                         convert_pixel(RenderOp(a, x, y)), Naive)
    IN  [pixels |-> w.pixels, writes |-> w.writes,
         op_calls |-> st.op_calls + 1, panicked |-> w.panicked]

RECURSIVE NaiveFrom(_, _, _, _, _)
NaiveFrom(a, ctx, st, x, y) ==
    IF y >= ctx.end_y THEN st
    ELSE IF x >= ctx.end_x THEN NaiveFrom(a, ctx, st, ctx.start_x, y + 1)
    ELSE IF OpPanics(a, x, y)
         THEN [st EXCEPT !.op_calls = @ + 1, !.panicked = TRUE]
    ELSE CHOOSE out \in {IF st2.panicked THEN st2 ELSE NaiveFrom(a, ctx, st2, x + 1, y) :
                            st2 \in {NaiveWrite(a, ctx, st, x, y)}} : TRUE

render_naive(a, ctx, buf, wr) ==
    NaiveFrom(a, ctx,
              [pixels |-> buf, writes |-> wr, op_calls |-> 0, panicked |-> FALSE],
              ctx.start_x, ctx.start_y)

-----------------------------------------------------------------------------
(* The workers of the two parallel strategies *)

Finished(t) == t.status \in {"done", "panicked"}
AllFinished == \A i \in DOMAIN tasks : Finished(tasks[i])
AnyPanicked == \E i \in DOMAIN tasks : tasks[i].status = "panicked"
InProgress == {i \in DOMAIN tasks : tasks[i].status = "running"}

\* pixels.chunks_mut(w * 3).enumerate(): band i is the slice of the buffer from
\* i * 3w on, 3w bytes long but for a shorter last one.
BandCount(len, w) == (len + 3 * w - 1) \div (3 * w)
\* Bands one pixel apart instead of one row apart
BandOffsetPixel(i, w) == i * 3

BandOffset(i, w) == i * (3 * w)
BandLen(i, len, w) == Min(3 * w, len - BandOffset(i, w))

Bands(len, w) ==
    [i \in 0..(BandCount(len, w) - 1) |->
        [start_x |-> 0, end_x |-> w, x |-> 0, y |-> i, status |-> "queued",
         off |-> BandOffset(i, w), len |-> BandLen(i, len, w)]]

\* let threads = std::cmp::min(num_cpus::get() as u32, w);
ColumnThreads(cores, w) == Min(cores, w)

\* Ranges of equal length, the last as short as the others
ColumnRangeEqual(i, w, threads) ==
    LET lenx == w \div threads
    IN  [start_x |-> i * lenx, end_x |-> (i + 1) * lenx]

\* The column range of worker i of `threads`: lenx = w / threads,
\* start_x = i * lenx, end_x = if i == threads - 1 { w } else { (i + 1) * lenx }.
ColumnRange(i, w, threads) ==
    LET lenx == w \div threads
    IN  [start_x |-> i * lenx,
         end_x |-> IF i = threads - 1 THEN w ELSE (i + 1) * lenx]

\* Workers that all start at column 0 and run up to the end of their range
ColumnWorkerFromZero(i, w, h, threads) ==
    LET r == ColumnRange(i, w, threads)
    IN  [start_x |-> r.start_x, end_x |-> r.end_x, x |-> 0, y |-> 0,
         status |-> IF r.start_x < r.end_x /\ h > 0 THEN "running" ELSE "done",
         off |-> 0, len |-> 0]

\* scope.spawn(move |_| { for x in start_x..end_x { for y in 0..leny { .. } } })
ColumnWorker(i, w, h, threads) ==
    LET r == ColumnRange(i, w, threads)
    IN  [start_x |-> r.start_x, end_x |-> r.end_x, x |-> r.start_x, y |-> 0,
         status |-> IF r.start_x < r.end_x /\ h > 0 THEN "running" ELSE "done",
         off |-> 0, len |-> 0]

\* A collector that takes the buffer to be column-major
CollectLocationColumnMajor(w, x, y) == (x * w) + y

\* The buffer location the collector gives the message (x, y, pixel)
CollectLocation(w, x, y) == (y * w) + x

\* A collection loop that runs once more than there are pixels
CollectCountInclusive(w, h) == w * h + 1

\* The iterations of the collection loop, `for _ in 0..(w * h)`
CollectCount(w, h) == w * h

\* The senders of the channel: the dispatcher's tx, which lives until
\* render_threaded_naive returns, and the clone each unfinished worker holds.
Senders == 1 + Cardinality({i \in DOMAIN tasks : ~Finished(tasks[i])})

-----------------------------------------------------------------------------
(* Entering a strategy: its code up to the point where its workers run *)

Return(r) ==
    /\ result' = r
    /\ pc' = "returned"

\* render_naive: the debug_check!s, then the whole loop on the calling thread
EnterNaive(a, ctx) ==
    IF DebugCheckPanics(a, a.bounds[1] > 0) \/ DebugCheckPanics(a, a.bounds[2] > 0)
    THEN /\ Return(Panic)
         /\ UNCHANGED <<pixels, writes, tasks, chan, n, received, op_calls>>
    ELSE IF ~Followed(a, ctx)
    THEN /\ pc' = "loop"
         /\ UNCHANGED <<pixels, writes, tasks, chan, n, received, op_calls, result>>
    ELSE LET st == render_naive(a, ctx, pixels, writes)
         IN  /\ pixels' = st.pixels
             /\ writes' = st.writes
             /\ op_calls' = st.op_calls
             /\ Return(IF st.panicked THEN Panic ELSE Ok)
             /\ UNCHANGED <<tasks, chan, n, received>>

\* render_threaded: the debug_check!s, then the bands; chunks_mut panics on a
\* chunk size of 0.
EnterThreaded(a, ctx) ==
    LET w == a.bounds[1]
    IN  IF \/ DebugCheckPanics(a, a.bounds[1] > 0)
           \/ DebugCheckPanics(a, a.bounds[2] > 0)
           \/ DebugCheckPanics(a, a.len = a.bounds[1] * a.bounds[2] * 3)
           \/ w = 0
        THEN /\ Return(Panic)
             /\ UNCHANGED <<pixels, writes, tasks, chan, n, received, op_calls>>
        ELSE /\ tasks' = Bands(a.len, w)
             /\ pc' = "par_iter"
             /\ UNCHANGED <<pixels, writes, chan, n, received, op_calls, result>>

\* render_threaded_naive: the debug_check!s, w and h of the camera, the channel
EnterThreadedNaive(a, ctx) ==
    IF DebugCheckPanics(a, a.bounds[1] > 0) \/ DebugCheckPanics(a, a.bounds[2] > 0)
    THEN /\ Return(Panic)
         /\ UNCHANGED <<pixels, writes, tasks, chan, n, received, op_calls>>
    ELSE /\ pc' = IF ColumnThreads(a.cores, ctx.film_width) = 0 THEN "join" ELSE "spawn"
         /\ n' = 0
         /\ chan' = <<>>
         /\ UNCHANGED <<pixels, writes, tasks, received, op_calls, result>>

\* The call reaches the strategy at the end of `path`, through the functions
\* before it.
Enter(a, ctx, path) ==
    /\ context' = ctx
    /\ calls' = calls \o path
    /\ CASE path[Len(path)] = "render_naive" -> EnterNaive(a, ctx)
         [] path[Len(path)] = "render_threaded" -> EnterThreaded(a, ctx)
         [] path[Len(path)] = "render_threaded_naive" -> EnterThreadedNaive(a, ctx)

-----------------------------------------------------------------------------
(* renderer/mod.rs: render *)

\* The checks with the one of the scene first
PreconditionSceneFirst(a) ==
    IF a.objects_empty THEN "InvalidScene"
    ELSE IF a.samples_per_pixel = 0 THEN "InvalidParameter"
    ELSE IF a.max_depth = 0 THEN "InvalidParameter"
    ELSE IF a.bounds[1] = 0 \/ a.bounds[2] = 0 THEN "BufferSize"
    ELSE IF a.bounds[1] > MaxDimension \/ a.bounds[2] > MaxDimension THEN "BufferSize"
    ELSE "none"

\* The checks with the dimensions checked before the parameters
PreconditionBoundsFirst(a) ==
    IF a.bounds[1] = 0 \/ a.bounds[2] = 0 THEN "BufferSize"
    ELSE IF a.bounds[1] > MaxDimension \/ a.bounds[2] > MaxDimension THEN "BufferSize"
    ELSE IF a.samples_per_pixel = 0 THEN "InvalidParameter"
    ELSE IF a.max_depth = 0 THEN "InvalidParameter"
    ELSE IF a.objects_empty THEN "InvalidScene"
    ELSE "none"

\* The checks with the upper limit of the dimensions exclusive
PreconditionExclusiveLimit(a) ==
    IF a.samples_per_pixel = 0 THEN "InvalidParameter"
    ELSE IF a.max_depth = 0 THEN "InvalidParameter"
    ELSE IF a.bounds[1] = 0 \/ a.bounds[2] = 0 THEN "BufferSize"
    ELSE IF a.bounds[1] >= MaxDimension \/ a.bounds[2] >= MaxDimension THEN "BufferSize"
    ELSE IF a.objects_empty THEN "InvalidScene"
    ELSE "none"

\* The checks without the one of the scene
PreconditionNoScene(a) ==
    IF a.samples_per_pixel = 0 THEN "InvalidParameter"
    ELSE IF a.max_depth = 0 THEN "InvalidParameter"
    ELSE IF a.bounds[1] = 0 \/ a.bounds[2] = 0 THEN "BufferSize"
    ELSE IF a.bounds[1] > MaxDimension \/ a.bounds[2] > MaxDimension THEN "BufferSize"
    ELSE "none"

\* The precondition checks of render, in their order: the error of the first
\* that fails, "none" when all pass.
Precondition(a) ==
    IF a.samples_per_pixel = 0 THEN "InvalidParameter"
    ELSE IF a.max_depth = 0 THEN "InvalidParameter"
    ELSE IF a.bounds[1] = 0 \/ a.bounds[2] = 0 THEN "BufferSize"
    ELSE IF a.bounds[1] > MaxDimension \/ a.bounds[2] > MaxDimension THEN "BufferSize"
    ELSE IF a.objects_empty THEN "InvalidScene"
    ELSE "none"

\* A dispatch whose accelerated modes run the column strategy
DispatchAcceleratedColumns(env) ==
    CASE env = "Naive" -> <<"render_naive">>
      [] env = "Cuda" -> <<"render_cuda", "render_threaded_naive">>
      [] env = "Opencl" -> <<"render_opencl", "render_threaded_naive">>
      [] env = "SimpleThreaded" -> <<"render_threaded_naive">>
      [] OTHER -> <<"render_threaded">>

\* match env { .. }: the functions render enters, the last being the strategy;
\* render_cuda and render_opencl call render_threaded.
Dispatch(env) ==
    CASE env = "Naive" -> <<"render_naive">>
      [] env = "Cuda" -> <<"render_cuda", "render_threaded">>
      [] env = "Opencl" -> <<"render_opencl", "render_threaded">>
      [] env = "SimpleThreaded" -> <<"render_threaded_naive">>
      [] OTHER -> <<"render_threaded">>

\* render(env, samples_per_pixel, max_depth, world, pixels, bounds)
Render ==
    /\ pc = "start"
    /\ args.entry = "render"
    /\ IF Precondition(args) # "none"
       THEN /\ Return(condition_check(args, Precondition(args)))
            /\ calls' = Append(calls, "render")
            /\ UNCHANGED <<context, pixels, writes, tasks, chan, n, received, op_calls>>
       ELSE Enter(args,
                  RenderContext(args.bounds, <<0, 0, args.bounds[1], args.bounds[2]>>),
                  <<"render">> \o Dispatch(args.env))
    /\ UNCHANGED <<args, bbox, operands, region, probe>>

\* A strategy called with a context the caller built, as the tests of
\* cpurender.rs do.
Call ==
    /\ pc = "start"
    /\ args.entry = "direct"
    /\ IF DebugCheckPanics(args, ContextChecks(args, args.tile))
       THEN /\ Return(Panic)
            /\ UNCHANGED <<context, calls, pixels, writes, tasks, chan, n, received,
                           op_calls>>
       ELSE Enter(args, RenderContext(args.film, args.tile), <<args.strategy>>)
    /\ UNCHANGED <<args, bbox, operands, region, probe>>

-----------------------------------------------------------------------------
(* render_threaded: bands.into_par_iter().for_each(|(i, band)| ..) *)

\* One iteration of `for x in 0..w` of the task of band i.  The rayon pool has
\* as many threads as the machine has cores, so that many tasks are under way
\* at most.
BandStep(i) ==
    /\ pc = "par_iter"
    /\ Followed(args, context)
    /\ i \in DOMAIN tasks
    /\ \/ tasks[i].status = "running"
       \/ tasks[i].status = "queued" /\ Cardinality(InProgress) < args.cores
    /\ LET t == tasks[i]
           w == write_pixel(pixels, writes, t.off, t.len, t.x,
                            convert_pixel(RenderOp(args, t.x, t.y)), Band(i))
       IN  /\ op_calls' = op_calls + 1
           /\ IF OpPanics(args, t.x, t.y)
              THEN /\ tasks' = [tasks EXCEPT ![i].status = "panicked"]
                   /\ UNCHANGED <<pixels, writes>>
              ELSE /\ pixels' = w.pixels
                   /\ writes' = w.writes
                   /\ tasks' = [tasks EXCEPT
                          ![i].x = t.x + 1,
                          ![i].status = IF w.panicked THEN "panicked"
                                        ELSE IF t.x + 1 = t.end_x THEN "done"
                                        ELSE "running"]
    /\ UNCHANGED <<args, context, calls, chan, pc, n, received, result,
                   bbox, operands, region, probe>>

\* for_each returns when every task has ended; rayon resumes the unwinding of
\* a task that panicked in the calling thread.  Otherwise Ok(()).
BandJoin ==
    /\ pc = "par_iter"
    /\ AllFinished
    /\ Return(IF AnyPanicked THEN Panic ELSE Returned(args, Ok))
    /\ UNCHANGED <<args, context, calls, pixels, writes, tasks, chan, n, received,
                   op_calls, bbox, operands, region, probe>>

-----------------------------------------------------------------------------
(* render_threaded_naive: crossbeam::scope, the workers, the collection loop *)

\* One iteration of `for n in 0..threads`: worker n is spawned and runs.
Spawn ==
    /\ pc = "spawn"
    /\ LET w == context.film_width
           threads == ColumnThreads(args.cores, w)
       IN  /\ tasks' = [i \in 0..n |->
                          IF i = n THEN ColumnWorker(n, w, context.film_height, threads)
                          ELSE tasks[i]]
           /\ n' = n + 1
           /\ pc' = IF n + 1 = threads THEN "join" ELSE "spawn"
    /\ UNCHANGED <<args, context, calls, pixels, writes, chan, received, op_calls,
                   result, bbox, operands, region, probe>>

\* One iteration of the inner loop of worker i: render_op, convert_pixel,
\* tx.send((x, y, (r, g, b))).unwrap().  The receiver lives as long as the
\* function, so send does not fail.
ColumnStep(i) ==
    /\ pc \in {"spawn", "join"}
    /\ Followed(args, context)
    /\ i \in DOMAIN tasks
    /\ tasks[i].status = "running"
    /\ LET t == tasks[i]
           h == context.film_height
           nx == IF t.y + 1 = h THEN t.x + 1 ELSE t.x
           ny == IF t.y + 1 = h THEN 0 ELSE t.y + 1
       IN  /\ op_calls' = op_calls + 1
           /\ IF OpPanics(args, t.x, t.y)
              THEN /\ tasks' = [tasks EXCEPT ![i].status = "panicked"]
                   /\ UNCHANGED chan
              ELSE /\ chan' = Append(chan, [x |-> t.x, y |-> t.y,
                                            pixel |-> convert_pixel(RenderOp(args, t.x, t.y))])
                   /\ tasks' = [tasks EXCEPT
                          ![i].x = nx, ![i].y = ny,
                          ![i].status = IF nx = t.end_x THEN "done" ELSE "running"]
    /\ UNCHANGED <<args, context, calls, pixels, writes, pc, n, received, result,
                   bbox, operands, region, probe>>

\* A join that goes on to the collection loop whether a worker panicked or not
JoinUnchecked ==
    /\ pc = "join"
    /\ AllFinished
    /\ pc' = "collect"
    /\ UNCHANGED <<args, context, calls, pixels, writes, tasks, chan, n, received,
                   op_calls, result, bbox, operands, region, probe>>

\* A join that stores the first message it finds before it reports a panic
JoinStoresFirst ==
    /\ pc = "join"
    /\ AllFinished
    /\ IF AnyPanicked
       THEN /\ Return(Returned(args, Err("ThreadPanicked")))
            /\ IF chan = <<>> THEN UNCHANGED <<pixels, writes>>
               ELSE LET w == write_pixel(pixels, writes, 0, args.len,
                                         CollectLocation(context.film_width,
                                                         Head(chan).x, Head(chan).y),
                                         Head(chan).pixel, Collector)
                    IN  pixels' = w.pixels /\ writes' = w.writes
       ELSE /\ UNCHANGED <<pixels, writes>>
            /\ IF CollectCount(context.film_width, context.film_height) = 0
               THEN Return(Returned(args, Ok))
               ELSE pc' = "collect" /\ UNCHANGED result
    /\ UNCHANGED <<args, context, calls, tasks, chan, n, received,
                   op_calls, bbox, operands, region, probe>>

\* The end of crossbeam::scope: every worker is joined; Err if one panicked,
\* mapped to ComputeError::ThreadPanicked and returned by `?`.
Join ==
    /\ pc = "join"
    /\ AllFinished
    /\ IF AnyPanicked
       THEN Return(Returned(args, Err("ThreadPanicked")))
       ELSE IF CollectCount(context.film_width, context.film_height) = 0
       THEN Return(Returned(args, Ok))
       ELSE /\ pc' = "collect"
            /\ UNCHANGED result
    /\ UNCHANGED <<args, context, calls, pixels, writes, tasks, chan, n, received,
                   op_calls, bbox, operands, region, probe>>

\* One iteration of `for _ in 0..(w * h)`: rx.recv()? and the three stores.
\* recv blocks on an empty channel while a sender lives and fails when none
\* does; an index outside the buffer panics.
Collect ==
    /\ pc = "collect"
    /\ chan # <<>> \/ Senders = 0
    /\ IF chan = <<>>
       THEN /\ Return(Returned(args, Err("Communication")))
            /\ UNCHANGED <<pixels, writes, chan, received>>
       ELSE LET m == Head(chan)
                w == write_pixel(pixels, writes, 0, args.len,
                                 CollectLocation(context.film_width, m.x, m.y),
                                 m.pixel, Collector)
            IN  /\ chan' = Tail(chan)
                /\ pixels' = w.pixels
                /\ writes' = w.writes
                /\ received' = received + 1
                /\ IF w.panicked THEN Return(Panic)
                   ELSE IF received + 1 = CollectCount(context.film_width,
                                                       context.film_height)
                   THEN Return(Returned(args, Ok))
                   ELSE UNCHANGED <<pc, result>>
    /\ UNCHANGED <<args, context, calls, tasks, n, op_calls, bbox, operands, region, probe>>

-----------------------------------------------------------------------------
(* renderer/core/aabb.rs: AABB *)

\* f32 values: the finite ones are integers, s is the sign of an infinity
Fin(v) == [s |-> 0, v |-> v]
PosInf == [s |-> 1, v |-> 0]      \* f32::INFINITY
NegInf == [s |-> -1, v |-> 0]     \* f32::NEG_INFINITY

NaN == [s |-> 2, v |-> 0]         \* f32::NAN
IsNaN(x) == x.s = 2

\* x < y on f32: false when either side is NaN
Lt(x, y) ==
    IF IsNaN(x) \/ IsNaN(y) THEN FALSE
    ELSE IF x.s # y.s THEN x.s < y.s ELSE x.s = 0 /\ x.v < y.v
\* x >= y on f32: false when either side is NaN
Ge(x, y) == ~IsNaN(x) /\ ~IsNaN(y) /\ ~Lt(x, y)

\* min!(x, y): if x < y { x } else { y }
fmin(x, y) == IF Lt(x, y) THEN x ELSE y
\* max!(x, y): if x > y { x } else { y }
fmax(x, y) == IF Lt(y, x) THEN x ELSE y

\* AABB::new(box_min, box_max)
AABB(box_min, box_max) == [box_min |-> box_min, box_max |-> box_max]

\* An expand that takes the other box's maximum as it is
expandOverwriteMax(self, other) ==
    [box_min |-> <<fmin(other.box_min[1], self.box_min[1]),
                   fmin(other.box_min[2], self.box_min[2]),
                   fmin(other.box_min[3], self.box_min[3])>>,
     box_max |-> other.box_max]

\* AABB::expand(&mut self, other): the box self is afterwards
expand(self, other) ==
    [box_min |-> <<fmin(other.box_min[1], self.box_min[1]),
                   fmin(other.box_min[2], self.box_min[2]),
                   fmin(other.box_min[3], self.box_min[3])>>,
     box_max |-> <<fmax(other.box_max[1], self.box_max[1]),
                   fmax(other.box_max[2], self.box_max[2]),
                   fmax(other.box_max[3], self.box_max[3])>>]

\* The box of Region::new: (+inf, +inf, +inf)..(-inf, -inf, -inf)
EmptyBox == AABB(<<PosInf, PosInf, PosInf>>, <<NegInf, NegInf, NegInf>>)

-----------------------------------------------------------------------------
(* renderer/scene/objects/sphere.rs and renderer/scene/world.rs *)

\* Sphere::bounds: Aabb::new(self.center - self.radius, self.center + self.radius)
SphereBounds(o) ==
    AABB(<<Fin(o.center[1] - o.radius), Fin(o.center[2] - o.radius),
           Fin(o.center[3] - o.radius)>>,
         <<Fin(o.center[1] + o.radius), Fin(o.center[2] + o.radius),
           Fin(o.center[3] + o.radius)>>)

\* obj.bounds() of a Hittable: a sphere, or an object that stores its box
\* (the MockObject of the tests of world.rs)
Bounds(o) == IF o.kind = "sphere" THEN SphereBounds(o) ELSE o.bounds

\* Region::new(background_color)
NewRegion == [objects |-> <<>>, bounding_box |-> EmptyBox]

\* A push that leaves the box as it is
pushNoExpand(r, obj) ==
    [objects |-> Append(r.objects, obj), bounding_box |-> r.bounding_box]

\* Region::push(obj): self.bounding_box.expand(obj.bounds()); self.objects.push(obj)
push(r, obj) ==
    [objects |-> Append(r.objects, obj),
     bounding_box |-> expand(r.bounding_box, Bounds(obj))]

-----------------------------------------------------------------------------
(* f32 arithmetic on the values of the model, renderer/core/vector.rs *)

Sign(v) == IF v > 0 THEN 1 ELSE IF v < 0 THEN -1 ELSE 0
Inf(sign) == IF sign > 0 THEN PosInf ELSE NegInf

\* -x
Neg(x) == IF IsNaN(x) THEN NaN ELSE [s |-> -x.s, v |-> -x.v]

\* x + y: an infinity absorbs a finite value, inf + -inf is NaN
Add(x, y) ==
    IF IsNaN(x) \/ IsNaN(y) THEN NaN
    ELSE IF x.s = 0 /\ y.s = 0 THEN Fin(x.v + y.v)
    ELSE IF x.s = 0 THEN y
    ELSE IF y.s = 0 THEN x
    ELSE IF x.s = y.s THEN x ELSE NaN

\* x - y
Sub(x, y) == Add(x, Neg(y))

\* x * y: 0 * inf is NaN
Mul(x, y) ==
    IF IsNaN(x) \/ IsNaN(y) THEN NaN
    ELSE IF x.s = 0 /\ y.s = 0 THEN Fin(x.v * y.v)
    ELSE IF x.s = 0 THEN (IF x.v = 0 THEN NaN ELSE Inf(Sign(x.v) * y.s))
    ELSE IF y.s = 0 THEN (IF y.v = 0 THEN NaN ELSE Inf(x.s * Sign(y.v)))
    ELSE Inf(x.s * y.s)

\* The quotient v / d of two integers that d divides
Quotient(v, d) == CHOOSE q \in -(IF v < 0 THEN -v ELSE v)..(IF v < 0 THEN -v ELSE v) : q * d = v

\* x / d for a finite d (of sign + when it is zero): 0 / 0 is NaN, v / 0 an
\* infinity. The finite quotients of the model are exact.
Div(x, d) ==
    IF IsNaN(x) THEN NaN
    ELSE IF x.s # 0 THEN (IF d < 0 THEN Neg(x) ELSE x)
    ELSE IF d = 0 THEN (IF x.v = 0 THEN NaN ELSE Inf(Sign(x.v)))
    ELSE Fin(Quotient(x.v, d))

\* f32::sqrt of a perfect square
Sqrt(v) == CHOOSE q \in 0..v : q * q = v

\* Vec3 / Point3 with finite components: a tuple of integers
dot(u, v) == u[1] * v[1] + u[2] * v[2] + u[3] * v[3]
length_squared(v) == dot(v, v)
VecSub(u, v) == <<u[1] - v[1], u[2] - v[2], u[3] - v[3]>>
\* A vector of f32 values
FinVec(v) == <<Fin(v[1]), Fin(v[2]), Fin(v[3])>>
\* dot(u, v) of a finite u and a vector v of f32 values
DotF(u, v) ==
    Add(Add(Mul(Fin(u[1]), v[1]), Mul(Fin(u[2]), v[2])), Mul(Fin(u[3]), v[3]))

\* Ray::new(orig, dir): the ray with its inverse direction 1.0 / dir, an
\* infinity for a component of dir that is zero
Ray(orig, dir) ==
    [orig |-> orig, dir |-> dir,
     invdir |-> <<Div(Fin(1), dir[1]), Div(Fin(1), dir[2]), Div(Fin(1), dir[3])>>]

\* Ray::at(t): self.orig + t * self.dir
at(r, t) ==
    <<Add(Fin(r.orig[1]), Mul(t, Fin(r.dir[1]))),
      Add(Fin(r.orig[2]), Mul(t, Fin(r.dir[2]))),
      Add(Fin(r.orig[3]), Mul(t, Fin(r.dir[3])))>>

\* AABB::hit(&self, r, t): the slab test as the code computes it; the
\* distances of the x axis are taken from r.orig.y and r.invdir.y
AABBhit(self, r, t) ==
    LET tx1 == Mul(Sub(self.box_min[1], Fin(r.orig[2])), r.invdir[2])
        tx2 == Mul(Sub(self.box_max[1], Fin(r.orig[2])), r.invdir[2])
        tmin0 == fmin(tx1, tx2)
        tmax0 == fmax(tx1, tx2)
        ty1 == Mul(Sub(self.box_min[2], Fin(r.orig[2])), r.invdir[2])
        ty2 == Mul(Sub(self.box_max[2], Fin(r.orig[2])), r.invdir[2])
        tmin1 == fmax(tmin0, fmin(ty1, ty2))
        tmax1 == fmin(tmax0, fmax(ty1, ty2))
        tz1 == Mul(Sub(self.box_min[3], Fin(r.orig[3])), r.invdir[3])
        tz2 == Mul(Sub(self.box_max[3], Fin(r.orig[3])), r.invdir[3])
        tmin == fmax(tmin1, fmin(tz1, tz2))
        tmax == fmin(tmax1, fmax(tz1, tz2))
    IN  Ge(tmax, fmax(Fin(0), tmin)) /\ Lt(tmin, t)

-----------------------------------------------------------------------------
(* renderer/scene: HitRecord, Sphere::hit and Region::hit *)

\* A HitRecord as Option<HitRecord>: None has the fields of HitRecord::default()
None ==
    [some |-> FALSE, p |-> FinVec(<<0, 0, 0>>), normal |-> FinVec(<<0, 0, 0>>),
     t |-> PosInf, front_face |-> FALSE, material |-> "none"]

\* HitRecord::set_face_normal(&mut self, r, outward_normal)
set_face_normal(rec, r, outward_normal) ==
    LET front_face == Lt(DotF(r.dir, outward_normal), Fin(0))
    IN  [rec EXCEPT !.front_face = front_face,
                    !.normal = IF front_face THEN outward_normal
                               ELSE <<Neg(outward_normal[1]), Neg(outward_normal[2]),
                                      Neg(outward_normal[3])>>]

\* The record Sphere::hit builds for an accepted root
SphereRecord(self, r, root) ==
    LET p == at(r, root)
        outward_normal == <<Div(Sub(p[1], Fin(self.center[1])), self.radius),
                            Div(Sub(p[2], Fin(self.center[2])), self.radius),
                            Div(Sub(p[3], Fin(self.center[3])), self.radius)>>
    IN  set_face_normal([some |-> TRUE, p |-> p, normal |-> FinVec(<<0, 0, 0>>),
                         t |-> root, front_face |-> FALSE,
                         material |-> self.material], r, outward_normal)

\* root < t_min || t_max < root
RootOutside(root, t_min, t_max) == Lt(root, t_min) \/ Lt(t_max, root)

\* A Sphere::hit that tries the larger root only
SphereHitFarRoot(self, r, t_min, t_max) ==
    LET oc == VecSub(r.orig, self.center)
        a == length_squared(r.dir)
        half_b == dot(oc, r.dir)
        c == length_squared(oc) - self.radius * self.radius
        discriminant == half_b * half_b - a * c
        sqrtd == Sqrt(discriminant)
        far == Div(Fin(-half_b + sqrtd), a)
    IN  IF discriminant < 0 THEN None
        ELSE IF RootOutside(far, t_min, t_max) THEN None
        ELSE SphereRecord(self, r, far)

\* Sphere::hit(&self, r, t_min, t_max)
SphereHit(self, r, t_min, t_max) ==
    LET oc == VecSub(r.orig, self.center)
        a == length_squared(r.dir)
        half_b == dot(oc, r.dir)
        c == length_squared(oc) - self.radius * self.radius
        discriminant == half_b * half_b - a * c
        sqrtd == Sqrt(discriminant)
        near == Div(Fin(-half_b - sqrtd), a)
        far == Div(Fin(-half_b + sqrtd), a)
    IN  IF discriminant < 0 THEN None
        ELSE IF ~RootOutside(near, t_min, t_max) THEN SphereRecord(self, r, near)
        ELSE IF RootOutside(far, t_min, t_max) THEN None
        ELSE SphereRecord(self, r, far)

\* MockObject::hit of the tests of world.rs, after its assert!(self.expect)
MockHit(self, r, t_min, t_max) ==
    [some |-> TRUE, p |-> FinVec(<<0, 0, 0>>), normal |-> FinVec(<<0, 0, 0>>),
     t |-> PosInf, front_face |-> FALSE, material |-> "Lambert"]

\* hittable.hit(r, t_min, t_max) of a Box<dyn Hittable>
Hit(o, r, t_min, t_max) ==
    IF o.kind = "sphere" THEN SphereHit(o, r, t_min, t_max)
    ELSE MockHit(o, r, t_min, t_max)

\* The assert!(self.expect) of MockObject::hit fails
HitPanics(o) == o.kind = "mock" /\ ~o.expect

\* The state of the scan of Region::hit before any object is tested
ScanStart(t_max) ==
    [closest_so_far |-> t_max, rec |-> None, scanned |-> <<>>, panicked |-> FALSE]

\* A step of the scan that passes t_max to every object
ScanStepUntightened(st, i, o, r, t_min, t_max) ==
    IF HitPanics(o)
    THEN [st EXCEPT !.panicked = TRUE,
                    !.scanned = Append(@, [object |-> i, t_max |-> t_max, hit |-> None])]
    ELSE LET hit == Hit(o, r, t_min, t_max)
         IN  [closest_so_far |-> IF hit.some THEN hit.t ELSE st.closest_so_far,
              rec |-> IF hit.some THEN hit ELSE st.rec,
              scanned |-> Append(st.scanned, [object |-> i, t_max |-> t_max, hit |-> hit]),
              panicked |-> FALSE]

\* One iteration of `for hittable in &self.objects` on the i-th object o
ScanStep(st, i, o, r, t_min, t_max) ==
    IF HitPanics(o)
    THEN [st EXCEPT !.panicked = TRUE,
                    !.scanned = Append(@, [object |-> i, t_max |-> st.closest_so_far,
                                           hit |-> None])]
    ELSE LET hit == Hit(o, r, t_min, st.closest_so_far)
         IN  [closest_so_far |-> IF hit.some THEN hit.t ELSE st.closest_so_far,
              rec |-> IF hit.some THEN hit ELSE st.rec,
              scanned |-> Append(st.scanned, [object |-> i, t_max |-> st.closest_so_far,
                                              hit |-> hit]),
              panicked |-> FALSE]

\* The loop of Region::hit from the i-th object on
RECURSIVE Scan(_, _, _, _, _, _)
Scan(objects, r, t_min, t_max, st, i) ==
    IF i > Len(objects) \/ st.panicked THEN st
    ELSE Scan(objects, r, t_min, t_max, ScanStep(st, i, objects[i], r, t_min, t_max), i + 1)

\* Region::hit(&self, r, t_min, t_max): what it returns in rec, the calls of
\* hit it made in scanned
RegionHit(self, r, t_min, t_max) ==
    IF ~AABBhit(self.bounding_box, r, t_max) THEN ScanStart(t_max)
    ELSE Scan(self.objects, r, t_min, t_max, ScanStart(t_max), 1)

-----------------------------------------------------------------------------
(* The calls of the model *)

Dimensions(max) == {0} \cup (1..max) \cup {MaxDimension, MaxDimension + 1}
PanicPoints == {NoPanic, <<0, 0>>, <<1, 0>>}
Seeds == {0, 1}

\* A call's buffer holds bounds.0 * bounds.1 * 3 bytes; for dimensions the
\* model does not follow it is the buffer of the largest image it follows.
BufferLen(bounds) ==
    IF bounds[1] \in 1..MaxW /\ bounds[2] \in 1..MaxH
    THEN bounds[1] * bounds[2] * 3
    ELSE MaxW * MaxH * 3

RenderCalls ==
    {[entry |-> "render", env |-> e, strategy |-> "none",
      samples_per_pixel |-> s, max_depth |-> d, bounds |-> <<w, h>>,
      film |-> <<w, h>>, tile |-> <<0, 0, w, h>>, objects_empty |-> o,
      debug_assertions |-> g, cores |-> c, render_op |-> "render_pixel",
      seed |-> r, panic_at |-> p, len |-> BufferLen(<<w, h>>)] :
        e \in ComputeEnv, s \in {0, 1}, d \in {0, 1},
        w \in Dimensions(MaxW), h \in Dimensions(MaxH), o \in BOOLEAN,
        g \in BOOLEAN, c \in 1..MaxCores, r \in Seeds, p \in PanicPoints}

DirectCalls ==
    {[entry |-> "direct", env |-> "none", strategy |-> f,
      samples_per_pixel |-> 1, max_depth |-> 1, bounds |-> <<w, h>>,
      film |-> <<w, h>>, tile |-> <<0, 0, w, h>>, objects_empty |-> TRUE,
      debug_assertions |-> g, cores |-> c, render_op |-> "render_test_pixel",
      seed |-> 0, panic_at |-> p, len |-> BufferLen(<<w, h>>)] :
        f \in {"render_naive", "render_threaded", "render_threaded_naive"},
        w \in 1..MaxW, h \in 1..MaxH, g \in BOOLEAN, c \in 1..MaxCores,
        p \in PanicPoints}

\* No call of a scene function has been made
NoProbe == [fn |-> "none"]

NoOperands == [a |-> EmptyBox, b |-> EmptyBox, c |-> EmptyBox, k |-> 0]

InitRender(a) ==
    /\ args = a
    /\ context = NoContext
    /\ calls = <<>>
    /\ pixels = Buffer(a.len)
    /\ writes = NoWrites(a.len)
    /\ tasks = <<>>
    /\ chan = <<>>
    /\ pc = "start"
    /\ n = 0
    /\ received = 0
    /\ op_calls = 0
    /\ result = NoResult

Init ==
    /\ \E a \in RenderCalls \cup DirectCalls : InitRender(a)
    /\ bbox = EmptyBox
    /\ operands = NoOperands
    /\ region = NewRegion
    /\ probe = NoProbe

Next ==
    \/ Render
    \/ Call
    \/ \E i \in 0..(MaxH + 1) : BandStep(i)
    \/ BandJoin
    \/ Spawn
    \/ \E i \in 0..(MaxCores + 1) : ColumnStep(i)
    \/ Join
    \/ Collect

Spec == Init /\ [][Next]_vars


-----------------------------------------------------------------------------
(* The spawn loop of render_threaded_naive, for wider images and more cores *)

MaxColumns == 8    \* widths 1..MaxColumns
MaxThreads == 5    \* num_cpus::get() ranges over 1..MaxThreads

ColumnCalls ==
    {[entry |-> "direct", env |-> "none", strategy |-> "render_threaded_naive",
      samples_per_pixel |-> 1, max_depth |-> 1, bounds |-> <<w, 1>>,
      film |-> <<w, 1>>, tile |-> <<0, 0, w, 1>>, objects_empty |-> TRUE,
      debug_assertions |-> FALSE, cores |-> c, render_op |-> "render_test_pixel",
      seed |-> 0, panic_at |-> NoPanic, len |-> w * 3] :
        w \in 1..MaxColumns, c \in 1..MaxThreads}

IdleCall ==
    CHOOSE a \in DirectCalls :
        /\ a.strategy = "render_naive" /\ a.bounds = <<1, 1>> /\ a.cores = 1
        /\ ~a.debug_assertions /\ a.panic_at = NoPanic

InitColumns ==
    /\ \E a \in ColumnCalls : InitRender(a)
    /\ bbox = EmptyBox
    /\ operands = NoOperands
    /\ region = NewRegion
    /\ probe = NoProbe

NextColumns ==
    \/ Call
    \/ Spawn

SpecColumns == InitColumns /\ [][NextColumns]_vars

-----------------------------------------------------------------------------
(* The calls of render and of the strategies under fair scheduling *)

\* The calls followed under fair scheduling: direct calls of the strategies
\* on the smallest and on the largest image with every core at work, and calls
\* of render on one core, with and without valid samples and width
LiveCalls ==
    {a \in DirectCalls : /\ a.cores = MaxCores
                         /\ ~a.debug_assertions
                         /\ a.bounds \in {<<1, 1>>, <<MaxW, MaxH>>}} \cup
    {[entry |-> "render", env |-> e, strategy |-> "none",
      samples_per_pixel |-> s, max_depth |-> 1, bounds |-> <<w, MaxH>>,
      film |-> <<w, MaxH>>, tile |-> <<0, 0, w, MaxH>>, objects_empty |-> FALSE,
      debug_assertions |-> g, cores |-> 1, render_op |-> "render_pixel",
      seed |-> 0, panic_at |-> NoPanic, len |-> BufferLen(<<w, MaxH>>)] :
        e \in ComputeEnv, s \in {0, 1}, w \in {0, 1, MaxW}, g \in BOOLEAN}

\* The caller makes one of the calls
Begin ==
    /\ pc = "idle"
    /\ \E a \in LiveCalls :
          /\ args' = a
          /\ pixels' = Buffer(a.len)
          /\ writes' = NoWrites(a.len)
    /\ pc' = "start"
    /\ UNCHANGED <<context, calls, tasks, chan, n, received, op_calls, result, bbox,
                   operands, region, probe>>

\* The caller before the call
InitFair ==
    /\ args = IdleCall
    /\ context = NoContext
    /\ calls = <<>>
    /\ pixels = Buffer(IdleCall.len)
    /\ writes = NoWrites(IdleCall.len)
    /\ tasks = <<>>
    /\ chan = <<>>
    /\ pc = "idle"
    /\ n = 0
    /\ received = 0
    /\ op_calls = 0
    /\ result = NoResult
    /\ bbox = EmptyBox
    /\ operands = NoOperands
    /\ region = NewRegion
    /\ probe = NoProbe

NextFair == Begin \/ Next

\* The calls under fair scheduling: a thread that can take a step is not
\* held back for ever
SpecFair == InitFair /\ [][NextFair]_vars /\ WF_vars(NextFair)

-----------------------------------------------------------------------------
(* The strategies on a tile of the image *)

\* The ranges start..end within 0..max that are not empty
Ranges(max) == {r \in (0..max) \X (0..max) : r[1] < r[2]}

\* Direct calls of the strategies with a context whose tile is any rectangle
\* of the image: RenderContext::new(camera, max_depth, samples, start_x,
\* start_y, end_x, end_y)
TileCalls ==
    {[entry |-> "direct", env |-> "none", strategy |-> f,
      samples_per_pixel |-> 1, max_depth |-> 1, bounds |-> <<w, h>>,
      film |-> <<w, h>>, tile |-> <<rx[1], ry[1], rx[2], ry[2]>>,
      objects_empty |-> TRUE, debug_assertions |-> g, cores |-> MaxCores,
      render_op |-> "render_test_pixel", seed |-> 0, panic_at |-> NoPanic,
      len |-> BufferLen(<<w, h>>)] :
        f \in {"render_naive", "render_threaded", "render_threaded_naive"},
        w \in 1..MaxW, h \in 1..MaxH, rx \in Ranges(MaxW), ry \in Ranges(MaxH),
        g \in BOOLEAN}

\* A strategy is called on a tile of its image, or render on the whole image
InitTiles ==
    /\ \E a \in {c \in TileCalls : c.tile[3] <= c.bounds[1] /\ c.tile[4] <= c.bounds[2]}
                 \cup {c \in LiveCalls : c.entry = "render"} :
          InitRender(a)
    /\ bbox = EmptyBox
    /\ operands = NoOperands
    /\ region = NewRegion
    /\ probe = NoProbe

SpecTiles == InitTiles /\ [][Next]_vars

-----------------------------------------------------------------------------
(* render_naive and render_threaded on a buffer that is too short *)

\* Direct calls with a buffer of fewer than w * h * 3 bytes, as
\* test_naive_empty_image and test_empty_image make with vec![0; 0]
ShortCalls ==
    {[entry |-> "direct", env |-> "none", strategy |-> f,
      samples_per_pixel |-> 1, max_depth |-> 1, bounds |-> <<w, h>>,
      film |-> <<w, h>>, tile |-> <<0, 0, w, h>>, objects_empty |-> TRUE,
      debug_assertions |-> g, cores |-> c, render_op |-> "render_test_pixel",
      seed |-> 0, panic_at |-> NoPanic, len |-> l] :
        f \in {"render_naive", "render_threaded"},
        w \in 1..MaxW, h \in 1..MaxH, g \in BOOLEAN, c \in 1..MaxCores,
        l \in 0..(MaxW * MaxH * 3 - 1)}

InitShort ==
    /\ \E a \in {c \in ShortCalls : c.len < c.bounds[1] * c.bounds[2] * 3} : InitRender(a)
    /\ bbox = EmptyBox
    /\ operands = NoOperands
    /\ region = NewRegion
    /\ probe = NoProbe

NextShort ==
    \/ Call
    \/ \E i \in 0..(MaxH + 1) : BandStep(i)
    \/ BandJoin

SpecShort == InitShort /\ [][NextShort]_vars

-----------------------------------------------------------------------------
(* A box under expand *)

Points ==
    {<<Fin(-1), Fin(0), Fin(1)>>, <<Fin(1), Fin(-1), Fin(0)>>,
     <<Fin(0), Fin(1), Fin(-1)>>, <<PosInf, PosInf, PosInf>>,
     <<NegInf, NegInf, NegInf>>}

Boxes == {AABB(p, q) : p \in Points, q \in Points}

\* self.expand(b) and then self.expand(c), self being a at first
Expand ==
    /\ operands.k < 2
    /\ bbox' = expand(bbox, IF operands.k = 0 THEN operands.b ELSE operands.c)
    /\ operands' = [operands EXCEPT !.k = @ + 1]
    /\ UNCHANGED <<region, probe, args, context, calls, pixels, writes, tasks, chan, pc, n,
                   received, op_calls, result>>

InitAabb ==
    /\ InitRender(IdleCall)
    /\ \E a \in Boxes, b \in Boxes, c \in Boxes :
          /\ bbox = a
          /\ operands = [a |-> a, b |-> b, c |-> c, k |-> 0]
    /\ region = NewRegion
    /\ probe = NoProbe

SpecAabb == InitAabb /\ [][Expand]_vars

-----------------------------------------------------------------------------
(* A region under push *)

MaxObjects == 3    \* the objects pushed to a region

Centers == {<<0, 0, -1>>, <<1, -1, 0>>, <<-1, 1, 1>>}
Radii == {0, 1}
Spheres == {[kind |-> "sphere", center |-> c, radius |-> r] : c \in Centers, r \in Radii}
\* The box of the tests of aabb.rs whose z bounds are in reverse order
Mocks ==
    {[kind |-> "mock",
      bounds |-> AABB(<<Fin(-1), Fin(-1), Fin(-3)>>, <<Fin(1), Fin(1), Fin(-4)>>)]}
Objects == Spheres \cup Mocks

Push(obj) ==
    /\ Len(region.objects) < MaxObjects
    /\ region' = push(region, obj)
    /\ UNCHANGED <<bbox, operands, probe, args, context, calls, pixels, writes, tasks, chan,
                   pc, n, received, op_calls, result>>

InitRegion ==
    /\ InitRender(IdleCall)
    /\ bbox = EmptyBox
    /\ operands = NoOperands
    /\ region = NewRegion
    /\ probe = NoProbe

NextRegion == \E obj \in Objects : Push(obj)

SpecRegion == InitRegion /\ [][NextRegion]_vars

-----------------------------------------------------------------------------
(* A region read back from storage, and recalculate_bounds *)

\* Region::recalculate_bounds(&mut self), from the i-th object on:
\* for obj in self.objects.iter() { self.bounding_box.expand(obj.bounds()); }
RECURSIVE RecalculateFrom(_, _)
RecalculateFrom(r, i) ==
    IF i > Len(r.objects) THEN r
    ELSE RecalculateFrom([r EXCEPT !.bounding_box = expand(@, Bounds(r.objects[i]))], i + 1)

recalculate_bounds(r) == RecalculateFrom(r, 1)

\* The boxes a stored region may carry (#[derive(Deserialize)] reads the field
\* as it was written): the box of Region::new, a box around every object of the
\* model, a box at the origin
StoredBoxes ==
    {EmptyBox,
     AABB(<<Fin(-9), Fin(-9), Fin(-9)>>, <<Fin(9), Fin(9), Fin(9)>>),
     AABB(<<Fin(0), Fin(0), Fin(0)>>, <<Fin(0), Fin(0), Fin(0)>>)}

\* The region is read back with one of the stored boxes
Deserialize ==
    /\ probe = NoProbe
    /\ \E b \in StoredBoxes :
          /\ region' = [region EXCEPT !.bounding_box = b]
          /\ probe' = [fn |-> "deserialize", stored |-> b]
    /\ UNCHANGED <<bbox, operands, args, context, calls, pixels, writes, tasks, chan,
                   pc, n, received, op_calls, result>>

\* region.recalculate_bounds() on the region read back
Recalculate ==
    /\ probe.fn = "deserialize"
    /\ region' = recalculate_bounds(region)
    /\ probe' = [fn |-> "recalculate_bounds", stored |-> probe.stored]
    /\ UNCHANGED <<bbox, operands, args, context, calls, pixels, writes, tasks, chan,
                   pc, n, received, op_calls, result>>

\* Objects are pushed to a new region before it is stored
StoredPush(obj) == probe = NoProbe /\ Push(obj)

NextStored ==
    \/ \E obj \in Objects : StoredPush(obj)
    \/ Deserialize
    \/ Recalculate

SpecStored == InitRegion /\ [][NextStored]_vars

-----------------------------------------------------------------------------
(* Rays against a sphere and against a region *)

\* Spheres on and beside the z axis, the last one off the plane x = y; the
\* material names the sphere
SceneSpheres ==
    {[kind |-> "sphere", center |-> <<0, 0, -4>>, radius |-> 1, material |-> "a"],
     [kind |-> "sphere", center |-> <<0, 0, -8>>, radius |-> 2, material |-> "b"],
     [kind |-> "sphere", center |-> <<1, 0, -4>>, radius |-> 1, material |-> "c"],
     [kind |-> "sphere", center |-> <<0, 0, -4>>, radius |-> 2, material |-> "d"],
     [kind |-> "sphere", center |-> <<3, 0, -4>>, radius |-> 1, material |-> "e"]}
\* The MockObject of test_region_hit that expects not to be asked
SceneMocks ==
    {[kind |-> "mock", expect |-> FALSE,
      bounds |-> AABB(<<Fin(13), Fin(0), Fin(12)>>, <<Fin(17), Fin(1), Fin(16)>>)]}
SceneObjects == SceneSpheres \cup SceneMocks

Origins == {<<0, 0, 0>>, <<0, 0, -4>>, <<0, 0, -8>>, <<3, -3, -4>>}
Directions == {<<0, 0, -1>>, <<0, 0, 1>>, <<0, 1, 0>>, <<1, 0, 0>>, <<0, 0, 0>>}
Rays == {Ray(o, d) : o \in Origins, d \in Directions}
TMins == {Fin(0), Fin(4)}
TMaxs == {Fin(5), PosInf}

\* s.hit(&r, t_min, t_max) on a sphere s
HitSphere ==
    /\ probe = NoProbe
    /\ \E s \in SceneSpheres, r \in Rays, t_min \in TMins, t_max \in TMaxs :
          probe' = [fn |-> "Sphere::hit", self |-> s, r |-> r, t_min |-> t_min,
                    t_max |-> t_max, out |-> SphereHit(s, r, t_min, t_max)]
    /\ UNCHANGED <<region, bbox, operands, args, context, calls, pixels, writes, tasks,
                   chan, pc, n, received, op_calls, result>>

InitSphere ==
    /\ InitRender(IdleCall)
    /\ bbox = EmptyBox
    /\ operands = NoOperands
    /\ region = NewRegion
    /\ probe = NoProbe

SpecSphere == InitSphere /\ [][HitSphere]_vars

\* r.push(obj) while the region is built
ScenePush(obj) == probe = NoProbe /\ Push(obj)

\* region.hit(&r, t_min, t_max) on the region as built
HitRegion ==
    /\ probe = NoProbe
    /\ \E r \in Rays, t_min \in TMins, t_max \in TMaxs :
          probe' = [fn |-> "Region::hit", self |-> region, r |-> r, t_min |-> t_min,
                    t_max |-> t_max, out |-> RegionHit(region, r, t_min, t_max)]
    /\ UNCHANGED <<region, bbox, operands, args, context, calls, pixels, writes, tasks,
                   chan, pc, n, received, op_calls, result>>

NextScene ==
    \/ \E obj \in SceneObjects : ScenePush(obj)
    \/ HitRegion

SpecScene == InitSphere /\ [][NextScene]_vars

\* The boxes AABB::hit is called on: the bounds of the objects of the scene
SceneBoxes == {Bounds(o) : o \in SceneObjects}

\* b.hit(&r, t) on a box b
HitBox ==
    /\ probe = NoProbe
    /\ \E b \in SceneBoxes, r \in Rays, t \in TMaxs :
          probe' = [fn |-> "AABB::hit", self |-> b, r |-> r, t |-> t,
                    out |-> AABBhit(b, r, t)]
    /\ UNCHANGED <<region, bbox, operands, args, context, calls, pixels, writes, tasks,
                   chan, pc, n, received, op_calls, result>>

SpecBox == InitSphere /\ [][HitBox]_vars

-----------------------------------------------------------------------------
(* renderer/execute/render_op.rs: ray_color_it, and the recursive ray_color
   of main.rs and renderables/world.rs *)

MaxDepth == 3      \* max_depth ranges over 0..MaxDepth

\* A colour channel c stands for the float c / ColorOne: every colour of the
\* model, halved up to MaxDepth times, is an integer
ColorOne == 20 * 2^MaxDepth
BLACK == <<0, 0, 0>>                                     \* color::BLACK
WHITE == <<ColorOne, ColorOne, ColorOne>>                \* color::WHITE
\* Color::new(0.5, 0.7, 1.0) of ray_color
SKY == <<ColorOne \div 2, (7 * ColorOne) \div 10, ColorOne>>

\* t = 0.5 * (unit_direction.y + 1.0), in halves, of a ray whose unit
\* direction has the y component dir_y in {-1, 0, 1}
SkyT(r) == r.dir_y + 1

\* color::lerp(from, to, t): (1.0 - t) * from + t * to, t in halves
lerp(from, to, t) ==
    <<((2 - t) * from[1] + t * to[1]) \div 2,
      ((2 - t) * from[2] + t * to[2]) \div 2,
      ((2 - t) * from[3] + t * to[3]) \div 2>>

\* Region::background_color(&self, r)
background_color(world, r) == lerp(WHITE, world.background_color, SkyT(r))

\* The scene and the random draws as the integrator meets them: the ray r is
\* the r.n-th of its path, world.hits says whether the query of the n-th ray
\* hits, world.bounce is the ray that leaves the n-th hit
WorldHit(world, r) == world.hits[r.n + 1]
Bounce(world, r) == [n |-> r.n + 1, dir_y |-> world.bounce[r.n + 1]]

\* A 0.5_f32.powi(n) that counts the bounce under way
AttenuateOneMore(c, k) ==
    <<c[1] \div 2^(k + 1), c[2] \div 2^(k + 1), c[3] \div 2^(k + 1)>>

\* 0.5_f32.powi(k) * c
Attenuate(c, k) == <<c[1] \div 2^k, c[2] \div 2^k, c[3] \div 2^k>>

\* The loop `for n in 0..max_depth` of ray_color_it from iteration k on, color
\* being BLACK so far: the colour it ends with and the calls of world.hit made
RECURSIVE ItLoop(_, _, _, _)
ItLoop(curr_ray, world, max_depth, k) ==
    IF k >= max_depth THEN [color |-> BLACK, queries |-> k]
    ELSE IF ~WorldHit(world, curr_ray)
         THEN [color |-> Attenuate(background_color(world, curr_ray), k),
               queries |-> k + 1]
         ELSE ItLoop(Bounce(world, curr_ray), world, max_depth, k + 1)

\* A ray_color_it that takes the background when the depth is used up
ray_color_itNoBlack(r, world, max_depth) ==
    LET out == ItLoop(r, world, max_depth, 0)
    IN  IF out.queries = max_depth /\ out.color = BLACK
        THEN [out EXCEPT !.color = background_color(world, r)]
        ELSE out

\* ray_color_it(r, world, max_depth)
ray_color_it(r, world, max_depth) == ItLoop(r, world, max_depth, 0)

\* ray_color(r, world, depth), recursive, with its own sky gradient
RECURSIVE ray_color(_, _, _)
ray_color(r, world, depth) ==
    IF depth = 0 THEN [color |-> BLACK, queries |-> 0]
    ELSE IF WorldHit(world, r)
         THEN LET sub == ray_color(Bounce(world, r), world, depth - 1)
              IN  [color |-> Attenuate(sub.color, 1), queries |-> sub.queries + 1]
         ELSE [color |-> lerp(WHITE, SKY, SkyT(r)), queries |-> 1]

\* The background colours of a region: that of the tests of world.rs,
\* Color::new(0.1, 0.1, 0.1), and the sky of ray_color
Backgrounds == {<<ColorOne \div 10, ColorOne \div 10, ColorOne \div 10>>, SKY}
DirYs == {-1, 0, 1}
Worlds ==
    {[background_color |-> b, hits |-> h, bounce |-> d] :
        b \in Backgrounds, h \in [1..MaxDepth -> BOOLEAN], d \in [1..MaxDepth -> DirYs]}

\* Both integrators on the same ray, scene, draws and depth
RayColor ==
    /\ probe = NoProbe
    /\ \E y \in DirYs, world \in Worlds, max_depth \in 0..MaxDepth :
          LET r == [n |-> 0, dir_y |-> y]
          IN  probe' = [fn |-> "ray_color", r |-> r, world |-> world,
                        max_depth |-> max_depth,
                        it |-> ray_color_it(r, world, max_depth),
                        rec |-> ray_color(r, world, max_depth)]
    /\ UNCHANGED <<region, bbox, operands, args, context, calls, pixels, writes, tasks,
                   chan, pc, n, received, op_calls, result>>

SpecColor == InitSphere /\ [][RayColor]_vars

-----------------------------------------------------------------------------
(* scene/materials/mod.rs: Material::scatter *)

VecAdd(u, v) == <<u[1] + v[1], u[2] + v[2], u[3] + v[3]>>
VecScale(k, v) == <<k * v[1], k * v[2], k * v[3]>>

\* vector::unit_vector(v): v / v.length(), for a vector whose length is an
\* integer that divides its components
unit_vector(v) ==
    LET len == Sqrt(length_squared(v))
    IN  <<Quotient(v[1], len), Quotient(v[2], len), Quotient(v[3], len)>>

\* vector::reflect(v, n): v - 2 * dot(v, n) * n
reflect(v, nrm) == VecSub(v, VecScale(2 * dot(v, nrm), nrm))

\* vector::refract(uv, n, etai_over_etat), the ratio being num / den:
\* cos_theta = min(dot(-uv, n), 1); r_out_perp = ratio * (uv + cos_theta * n);
\* r_out_parallel = -sqrt(|1 - r_out_perp.length_squared()|) * n
refract(uv, nrm, num, den) ==
    LET cos_theta == Min(dot(VecScale(-1, uv), nrm), 1)
        perp == VecScale(num, VecAdd(uv, VecScale(cos_theta, nrm)))
        parallel == Sqrt(IF den * den >= length_squared(perp)
                         THEN den * den - length_squared(perp)
                         ELSE length_squared(perp) - den * den)
        sum == VecSub(perp, VecScale(parallel, nrm))
    IN  <<Quotient(sum[1], den), Quotient(sum[2], den), Quotient(sum[3], den)>>

\* Vec3::near_zero: every component is closer to zero than 1e-8
near_zero(v) == v = <<0, 0, 0>>

\* reflectance(cos, ref_idx) > draw, with ref_idx = num / den and the draw of
\* gen_range(0.0..1.0) in tenths: r0 = ((1 - ref_idx) / (1 + ref_idx))^2,
\* r0 + (1 - r0) * (1 - cos)^5
ReflectanceAbove(cos, num, den, tenths) ==
    LET r0n == (den - num) * (den - num)
        r0d == (den + num) * (den + num)
        p == (1 - cos) * (1 - cos) * (1 - cos) * (1 - cos) * (1 - cos)
    IN  10 * (r0n + (r0d - r0n) * p) > tenths * r0d

\* Option<(Ray, Color)>: None, and Some((Ray::new(rec.p, dir), attenuation))
Absorbed == [some |-> FALSE, dir |-> <<0, 0, 0>>, attenuation |-> BLACK]
Scattered(dir, attenuation) == [some |-> TRUE, dir |-> dir, attenuation |-> attenuation]

\* A scatter whose metal reflects whatever the direction
scatterMetalAlways(self, r_in, rec, rnd, tenths) ==
    Scattered(VecAdd(reflect(r_in.dir, rec.normal), VecScale(self.fuzz, rnd)),
              IF self.kind = "Dielectric" THEN WHITE ELSE self.albedo)

\* Material::scatter(&self, r_in, rec), rnd being the random_unit_vector() and
\* tenths the gen_range(0.0..1.0) it draws
scatter(self, r_in, rec, rnd, tenths) ==
    CASE self.kind = "Lambert" ->
            LET scatter_dir == VecAdd(rec.normal, rnd)
            IN  Scattered(IF near_zero(scatter_dir) THEN rec.normal ELSE scatter_dir,
                          self.albedo)
      [] self.kind = "Metal" ->
            LET reflected == reflect(r_in.dir, rec.normal)
                scatter_dir == VecAdd(reflected, VecScale(self.fuzz, rnd))
            IN  IF dot(scatter_dir, rec.normal) > 0
                THEN Scattered(scatter_dir, self.albedo)
                ELSE Absorbed
      [] self.kind = "Dielectric" ->
            LET num == IF rec.front_face THEN 1 ELSE self.ior
                den == IF rec.front_face THEN self.ior ELSE 1
                unit_dir == unit_vector(r_in.dir)
                cos_theta == Min(dot(VecScale(-1, unit_dir), rec.normal), 1)
                sin_theta == Sqrt(1 - cos_theta * cos_theta)
                dir == IF \/ num * sin_theta > den
                          \/ ReflectanceAbove(cos_theta, num, den, tenths)
                       THEN reflect(unit_dir, rec.normal)
                       ELSE refract(unit_dir, rec.normal, num, den)
            IN  Scattered(dir, WHITE)

\* The materials of the model; fuzz and ior are whole numbers
Materials ==
    {[kind |-> "Lambert", albedo |-> a, fuzz |-> 0, ior |-> 1] :
        a \in {<<ColorOne, 0, 0>>, <<10, 10, 10>>}} \cup
    {[kind |-> "Metal", albedo |-> a, fuzz |-> f, ior |-> 1] :
        a \in {<<ColorOne, 0, 0>>, <<10, 10, 10>>}, f \in 0..2} \cup
    {[kind |-> "Dielectric", albedo |-> BLACK, fuzz |-> 0, ior |-> i] : i \in 1..2}

\* The unit directions of the incoming ray, the hit normals and the random unit
\* vectors: along the axes
Incoming == {<<0, 0, -1>>, <<0, -1, 0>>, <<1, 0, 0>>, <<0, 0, 1>>}
Normals == {<<0, 0, 1>>, <<0, 1, 0>>, <<0, 0, -1>>}
RandomUnits ==
    {<<1, 0, 0>>, <<-1, 0, 0>>, <<0, 1, 0>>, <<0, -1, 0>>, <<0, 0, 1>>, <<0, 0, -1>>}
Draws == {0, 5, 9}

\* material.scatter(&r_in, &rec)
Scatter ==
    /\ probe = NoProbe
    /\ \E m \in Materials, d \in Incoming, nrm \in Normals, ff \in BOOLEAN,
          rnd \in RandomUnits, tenths \in Draws :
          LET r_in == Ray(<<0, 0, 0>>, d)
              rec == [p |-> <<0, 0, -4>>, normal |-> nrm, front_face |-> ff]
          IN  probe' = [fn |-> "scatter", self |-> m, r_in |-> r_in, rec |-> rec,
                        rnd |-> rnd, tenths |-> tenths,
                        out |-> scatter(m, r_in, rec, rnd, tenths)]
    /\ UNCHANGED <<region, bbox, operands, args, context, calls, pixels, writes, tasks,
                   chan, pc, n, received, op_calls, result>>

SpecScatter == InitSphere /\ [][Scatter]_vars

-----------------------------------------------------------------------------
(* core/mod.rs: clamp and convert_pixel on their inputs *)

MaxChannel == 2048     \* channels range up to MaxChannel / Scale

\* if x < min { return min; } if x > max { return max; } x
clamp(x, min, max) ==
    IF Lt(x, min) THEN min
    ELSE IF Lt(max, x) THEN max
    ELSE x

\* One channel of convert_pixel on an f32 that need not be finite:
\* f32::sqrt(INFINITY) is INFINITY, of NaN and of NEG_INFINITY it is NaN;
\* `as u8` turns NaN into 0.
ConvertF32(x) ==
    IF x.s = 0 THEN ConvertChannel(x.v)
    ELSE LET root == IF x.s = 1 THEN PosInf ELSE NaN
             c == clamp(root, Fin(0), Fin(999))
         IN  IF IsNaN(c) THEN 0 ELSE (c.v * 256) \div Scale

\* The channels convert_pixel is called with, in units of 1 / Scale
Channels == {Fin(v) : v \in (0 - 16)..MaxChannel} \cup {PosInf, NegInf, NaN}

\* The operands clamp is called with
ClampValues == {NegInf, Fin(0 - 1), Fin(0), Fin(500), Fin(999), Fin(Scale), PosInf, NaN}

\* convert_pixel(pixel)
ConvertPixel ==
    /\ probe = NoProbe
    /\ \E c \in Channels, g \in {Fin(0), Fin(Scale)} :
          probe' = [fn |-> "convert_pixel", pixel |-> <<c, g, Fin(210)>>,
                    out |-> <<ConvertF32(c), ConvertF32(g), ConvertF32(Fin(210))>>]
    /\ UNCHANGED <<args, context, calls, pixels, writes, tasks, chan, pc, n, received,
                   op_calls, result, bbox, operands, region>>

\* clamp(x, min, max)
Clamp ==
    /\ probe = NoProbe
    /\ \E x \in ClampValues, min \in ClampValues, max \in ClampValues :
          probe' = [fn |-> "clamp", x |-> x, min |-> min, max |-> max,
                    out |-> clamp(x, min, max)]
    /\ UNCHANGED <<args, context, calls, pixels, writes, tasks, chan, pc, n, received,
                   op_calls, result, bbox, operands, region>>

NextConvert == ConvertPixel \/ Clamp

SpecConvert == InitSphere /\ [][NextConvert]_vars

-----------------------------------------------------------------------------
(* Properties of the dispatch strategies and of render *)

Strategies == {"render_naive", "render_threaded", "render_threaded_naive"}
Strategy == IF calls = <<>> THEN "none" ELSE calls[Len(calls)]
Parallel == Strategy \in {"render_threaded", "render_threaded_naive"}
Width == args.bounds[1]
Height == args.bounds[2]

\* The context's tile is the full image and its camera has the image's size
FullTile ==
    /\ context.built
    /\ context.start_x = 0 /\ context.start_y = 0
    /\ context.end_x = Width /\ context.end_y = Height
    /\ context.film_width = Width /\ context.film_height = Height

ExactBuffer == args.len = Width * Height * 3

\* The operator returns a colour at every pixel of the image
OpTotal ==
    \A x \in 0..(Width - 1), y \in 0..(Height - 1) : ~OpPanics(args, x, y)

\* Nothing of a render has happened: no context, no worker, no message, no
\* invocation of the operator, no byte of the buffer written.
NoCompute ==
    /\ ~context.built
    /\ tasks = <<>>
    /\ chan = <<>>
    /\ op_calls = 0
    /\ pixels = Buffer(args.len)
    /\ \A j \in DOMAIN writes : writes[j] = <<>>

\* C1: with a deterministic operator that returns at every pixel, the full
\* image as tile and a buffer of w * h * 3 bytes, every strategy returns Ok
\* and leaves the buffer the single-threaded loop leaves, whatever the
\* interleaving of the workers and the order of the messages.
C1_SameBuffer ==
    (/\ pc = "returned"
     /\ Strategy \in Strategies
     /\ FullTile /\ ExactBuffer /\ OpTotal)
    => /\ result = Ok
       /\ pixels = render_naive(args, context, Buffer(args.len), NoWrites(args.len)).pixels

C1_Witness ==
    /\ pc = "returned"
    /\ Strategy = "render_threaded_naive"
    /\ Width = 2 /\ Height = 2
    /\ DOMAIN tasks = 0..1
    /\ FullTile /\ ExactBuffer /\ OpTotal
    /\ result = Ok
    /\ pixels # Buffer(args.len)

\* C3: under a parallel strategy with a buffer of w * h * 3 bytes no byte is
\* ever written twice, the task of row i writes bytes [i * 3w, (i + 1) * 3w)
\* only, only the collector writes under the column strategy, and when the
\* call returns Ok every byte has been written exactly once.
C3_DisjointWrites ==
    (Parallel /\ FullTile /\ ExactBuffer)
    => /\ \A j \in DOMAIN writes :
            /\ Len(writes[j]) <= 1
            /\ \A k \in 1..Len(writes[j]) :
                 IF Strategy = "render_threaded"
                 THEN /\ writes[j][k].kind = "band"
                      /\ j >= writes[j][k].id * 3 * Width
                      /\ j < (writes[j][k].id + 1) * 3 * Width
                 ELSE writes[j][k] = Collector
       /\ (pc = "returned" /\ result = Ok)
            => \A j \in 0..(Width * Height * 3 - 1) :
                 j \in DOMAIN writes /\ Len(writes[j]) = 1

C3_Witness ==
    /\ pc = "returned"
    /\ Strategy = "render_threaded"
    /\ Width = 2 /\ Height = 2
    /\ result = Ok
    /\ \A j \in 0..11 : writes[j] = <<Band(j \div 6)>>

\* C4: under each parallel strategy a panic inside a worker is caught at the
\* join and the dispatcher returns ComputeError::ThreadPanicked; the panic does
\* not leave the dispatcher, which never returns Ok after it.
C4_PanicReported ==
    (pc = "returned" /\ Parallel /\ AnyPanicked)
    => /\ result.kind = "Err"
       /\ "ThreadPanicked" \in {result.error, result.cause}

\* C5 as stated: render with samples_per_pixel == 0 or max_depth == 0 fails
\* with RendererError::InvalidParameter for every compute mode, before any
\* compute.
C5_AsStated ==
    (args.entry = "render" /\ (args.samples_per_pixel = 0 \/ args.max_depth = 0))
    => /\ NoCompute
       /\ pc \in {"start", "returned"}
       /\ pc = "returned" => result = Err("InvalidParameter")

\* C5, amended: render with samples_per_pixel == 0 or max_depth == 0 fails for
\* every compute mode before any compute: it returns
\* RendererError::InvalidParameter in a build without debug assertions and
\* panics in a build with them.
C5_InvalidParameter ==
    (args.entry = "render" /\ (args.samples_per_pixel = 0 \/ args.max_depth = 0))
    => /\ NoCompute
       /\ pc \in {"start", "returned"}
       /\ pc = "returned" =>
            IF args.debug_assertions THEN result.kind = "panic"
            ELSE result = Err("InvalidParameter")

C5_Witness ==
    /\ pc = "returned"
    /\ args.entry = "render" /\ args.env = "SimpleThreaded"
    /\ args.samples_per_pixel = 0 /\ args.bounds = <<0, 2>>
    /\ ~args.debug_assertions
    /\ result = Err("InvalidParameter")

BadBounds ==
    \/ Width = 0 \/ Height = 0
    \/ Width > 4096 \/ Height > 4096

\* C6 as stated: with valid samples and depth, a width or height of 0 or above
\* 4096 fails with RendererError::BufferSize without any compute; 4096 is
\* accepted.
C6_AsStated ==
    (args.entry = "render" /\ args.samples_per_pixel > 0 /\ args.max_depth > 0)
    => /\ BadBounds =>
            /\ NoCompute
            /\ pc \in {"start", "returned"}
            /\ pc = "returned" => result = Err("BufferSize")
       /\ (~BadBounds /\ pc # "start") =>
            /\ result.error # "BufferSize"
            /\ ~args.objects_empty => context.built /\ Strategy \in Strategies

\* C6, amended: with valid samples and depth, a width or height of 0 or above
\* 4096 fails without any compute, with RendererError::BufferSize in a build
\* without debug assertions and with a panic in a build with them; dimensions
\* in 1..4096, 4096 included, pass the check.
C6_BufferSize ==
    (args.entry = "render" /\ args.samples_per_pixel > 0 /\ args.max_depth > 0)
    => /\ BadBounds =>
            /\ NoCompute
            /\ pc \in {"start", "returned"}
            /\ pc = "returned" =>
                 IF args.debug_assertions THEN result.kind = "panic"
                 ELSE result = Err("BufferSize")
       /\ (~BadBounds /\ pc # "start") =>
            /\ result.error # "BufferSize"
            /\ ~args.objects_empty => context.built /\ Strategy \in Strategies

C6_Witness ==
    /\ pc = "returned"
    /\ args.entry = "render" /\ args.env = "Multicore"
    /\ args.samples_per_pixel > 0 /\ args.max_depth > 0
    /\ args.bounds = <<4097, 4096>>
    /\ ~args.debug_assertions
    /\ result = Err("BufferSize")

PreconditionErrors == {"InvalidParameter", "BufferSize", "InvalidScene"}

\* C7 as stated: with otherwise valid arguments an empty scene fails with
\* RendererError::InvalidScene before any compute; the three precondition
\* errors are distinct from each other and from ComputeError.
C7_AsStated ==
    /\ (/\ args.entry = "render" /\ args.samples_per_pixel > 0 /\ args.max_depth > 0
        /\ ~BadBounds /\ args.objects_empty)
       => /\ NoCompute
          /\ pc \in {"start", "returned"}
          /\ pc = "returned" => result = Err("InvalidScene")
    /\ Cardinality(PreconditionErrors \cup {"ComputeError"}) = 4
    /\ (args.entry = "render" /\ result.kind = "Err")
       => /\ result.error \in PreconditionErrors => ~context.built /\ result.cause = "none"
          /\ result.error \notin PreconditionErrors =>
               /\ result.error = "ComputeError"
               /\ context.built
               /\ result.cause \in ComputeError

\* C7, amended: with otherwise valid arguments an empty scene fails before any
\* compute, with RendererError::InvalidScene in a build without debug
\* assertions and with a panic in a build with them; the three precondition
\* errors are distinct from each other and from ComputeError.
C7_InvalidScene ==
    /\ (/\ args.entry = "render" /\ args.samples_per_pixel > 0 /\ args.max_depth > 0
        /\ ~BadBounds /\ args.objects_empty)
       => /\ NoCompute
          /\ pc \in {"start", "returned"}
          /\ pc = "returned" =>
               IF args.debug_assertions THEN result.kind = "panic"
               ELSE result = Err("InvalidScene")
    /\ Cardinality(PreconditionErrors \cup {"ComputeError"}) = 4
    /\ (args.entry = "render" /\ result.kind = "Err")
       => /\ result.error \in PreconditionErrors => ~context.built /\ result.cause = "none"
          /\ result.error \notin PreconditionErrors =>
               /\ result.error = "ComputeError"
               /\ context.built
               /\ result.cause \in ComputeError

C7_Witness ==
    /\ pc = "returned"
    /\ args.entry = "render" /\ args.env = "Naive"
    /\ args.samples_per_pixel > 0 /\ args.max_depth > 0
    /\ args.bounds = <<2, 2>> /\ args.objects_empty
    /\ ~args.debug_assertions
    /\ result = Err("InvalidScene")

\* C8: for every valid input render runs exactly one strategy: render_threaded
\* with render_pixel under Cuda, Opencl and Multicore, which so have the same
\* outcome and, with a buffer of w * h * 3 bytes, leave the same buffer,
\* render_naive under Naive and render_threaded_naive under SimpleThreaded.
C8_Dispatch ==
    (args.entry = "render" /\ context.built)
    => /\ args.render_op = "render_pixel"
       /\ Len(calls) >= 2 /\ calls[1] = "render"
       /\ Cardinality({k \in 1..Len(calls) : calls[k] \in Strategies}) = 1
       /\ Strategy = (CASE args.env \in {"Cuda", "Opencl", "Multicore"} -> "render_threaded"
                        [] args.env = "Naive" -> "render_naive"
                        [] args.env = "SimpleThreaded" -> "render_threaded_naive")
       /\ (args.env \in {"Cuda", "Opencl", "Multicore"} /\ ExactBuffer /\ pc = "returned")
            => /\ result = IF OpTotal THEN Ok ELSE Panic
               /\ OpTotal =>
                    \A x \in 0..(Width - 1), y \in 0..(Height - 1), k \in 0..2 :
                       pixels[3 * (y * Width + x) + k]
                         = convert_pixel(render_pixel(args.seed, x, y))[k + 1]

C8_Witness ==
    /\ pc = "returned"
    /\ args.entry = "render" /\ args.env = "Cuda"
    /\ calls = <<"render", "render_cuda", "render_threaded">>
    /\ Width = 2 /\ Height = 2
    /\ result = Ok
    /\ pixels # Buffer(args.len)

-----------------------------------------------------------------------------
(* Properties of the column ranges, of AABB::expand and of Region::push *)

\* C2: the column ranges of the n = min(c, w) workers of render_threaded_naive
\* are contiguous, disjoint and non-empty and cover [0, w): every column is in
\* exactly one range, the last worker taking the remainder.
C2_ColumnPartition ==
    (Strategy = "render_threaded_naive" /\ pc \in {"spawn", "join"})
    => LET w == context.film_width
           k == Cardinality(DOMAIN tasks)
           threads == IF args.cores < w THEN args.cores ELSE w
       IN  /\ DOMAIN tasks = 0..(k - 1)
           /\ k <= threads
           /\ \A i \in DOMAIN tasks :
                /\ tasks[i].start_x < tasks[i].end_x
                /\ tasks[i].start_x = IF i = 0 THEN 0 ELSE tasks[i - 1].end_x
           /\ pc = "join" =>
                /\ k = threads
                /\ tasks[k - 1].end_x = w
                /\ \A col \in 0..(w - 1) :
                     Cardinality({i \in DOMAIN tasks :
                        tasks[i].start_x <= col /\ col < tasks[i].end_x}) = 1

C2_Witness ==
    /\ pc = "join"
    /\ Strategy = "render_threaded_naive"
    /\ context.film_width = 5 /\ args.cores = 3
    /\ DOMAIN tasks = 0..2
    /\ tasks[2].start_x = 2 /\ tasks[2].end_x = 5

\* The least and the greatest of a non-empty set of f32 values
Least(S) == CHOOSE m \in S : \A v \in S : ~Lt(v, m)
Greatest(S) == CHOOSE m \in S : \A v \in S : ~Lt(m, v)

\* The union of the bounds of a set of objects: componentwise least minimum
\* and greatest maximum, the empty box for no object
UnionBounds(objs) ==
    IF objs = {} THEN EmptyBox
    ELSE AABB([k \in 1..3 |-> Least({Bounds(o).box_min[k] : o \in objs})],
              [k \in 1..3 |-> Greatest({Bounds(o).box_max[k] : o \in objs})])

PushedObjects == {region.objects[i] : i \in 1..Len(region.objects)}

C9_Union == region.bounding_box = UnionBounds(PushedObjects)

C9_Grows ==
    \A k \in 1..3 :
        /\ ~Lt(region.bounding_box.box_min[k], region'.bounding_box.box_min[k])
        /\ ~Lt(region'.bounding_box.box_max[k], region.bounding_box.box_max[k])

\* C9: after any sequence of pushes from Region::new the bounding box is the
\* componentwise minimum and maximum of the bounds of the pushed objects,
\* whatever their order, and each push only grows the box.
C9_RegionBounds == C9_Union /\ [][C9_Union' /\ C9_Grows]_vars

C9_Witness ==
    /\ Len(region.objects) = 3
    /\ region.objects[1].kind = "sphere" /\ region.objects[1].center = <<1, -1, 0>>
    /\ region.objects[2].kind = "mock"
    /\ region.objects[3].kind = "sphere" /\ region.objects[3].center = <<-1, 1, 1>>
    /\ region.objects[3].radius = 1
    /\ region.bounding_box.box_min = <<Fin(-2), Fin(-2), Fin(-3)>>

\* C10: expand is commutative and associative, and the empty box is its
\* identity: a expanded by b then c is a expanded by c then b and a expanded
\* by (b expanded by c), and the empty box expanded by b is b.
C10_ExpandAlgebra ==
    /\ operands.k = 1 =>
         /\ bbox = expand(operands.b, operands.a)
         /\ operands.a = EmptyBox => bbox = operands.b
    /\ operands.k = 2 =>
         /\ bbox = expand(expand(operands.a, operands.c), operands.b)
         /\ bbox = expand(operands.a, expand(operands.b, operands.c))

C10_Witness ==
    /\ operands.k = 2
    /\ operands.a = EmptyBox
    /\ operands.b = AABB(<<Fin(1), Fin(-1), Fin(0)>>, <<Fin(0), Fin(1), Fin(-1)>>)
    /\ operands.c = AABB(<<Fin(-1), Fin(0), Fin(1)>>, <<PosInf, PosInf, PosInf>>)
    /\ bbox = AABB(<<Fin(-1), Fin(-1), Fin(0)>>, <<PosInf, PosInf, PosInf>>)

-----------------------------------------------------------------------------
(* Properties of Region::hit *)

\* A point of f32 values lies in the box
Inside(box, p) ==
    \A k \in 1..3 : Ge(p[k], box.box_min[k]) /\ Ge(box.box_max[k], p[k])

\* The ray never enters the box: no point r.at(t), t >= 0, lies in it. The
\* rays of the model run along an axis at unit speed from integer origins
\* (or stand still), so a ray that enters a box of integer bounds is inside it
\* at an integer t, within 32 of the origin.
Misses(box, r) == \A t \in 0..32 : ~Inside(box, at(r, Fin(t)))

RegionProbe == probe.fn = "Region::hit"

\* C11: for every ray that misses the bounding box of a region, Region::hit
\* returns None and calls hit on none of the objects of the region.
C11_MissSkipsScan ==
    (RegionProbe /\ Misses(probe.self.bounding_box, probe.r))
        => (~probe.out.rec.some /\ probe.out.scanned = <<>> /\ ~probe.out.panicked)

\* The region holds spheres only
SphereRegion(self) == \A i \in DOMAIN self.objects : self.objects[i].kind = "sphere"

\* The hits the objects of the region report for the ray within [t_min, t_max]
Reports(self, r, t_min, t_max) ==
    {h \in {Hit(self.objects[i], r, t_min, t_max) : i \in DOMAIN self.objects} : h.some}

\* The objects that report a hit do so at pairwise distinct distances
DistinctDistances(self, r, t_min, t_max) ==
    \A i, j \in DOMAIN self.objects :
        LET hi == Hit(self.objects[i], r, t_min, t_max)
            hj == Hit(self.objects[j], r, t_min, t_max)
        IN  (i # j /\ hi.some /\ hj.some) => hi.t # hj.t

\* The region built by Region::new and the pushes of objs in the order f
RECURSIVE Built(_, _, _)
Built(objs, f, k) ==
    IF k = 0 THEN NewRegion ELSE push(Built(objs, f, k - 1), objs[f[k]])

Orders(len) == {f \in [1..len -> 1..len] : \A i, j \in 1..len : f[i] = f[j] => i = j}

\* The call passed the test of the bounding box and went through the objects
Scanned == RegionProbe /\ SphereRegion(probe.self)
           /\ AABBhit(probe.self.bounding_box, probe.r, probe.t_max)

\* C12: when the test of the bounding box passes, Region::hit returns the hit
\* with the smallest t among the hits its objects report within [t_min, t_max],
\* and None iff no object reports one; the bound closest_so_far handed to the
\* objects never increases during the scan, no object's hit beyond the bound is
\* taken, and for pairwise distinct hit distances the result is the same for
\* every order of the object list.
C12_ClosestHit ==
    Scanned =>
        LET self == probe.self
            out == probe.out
            reports == Reports(self, probe.r, probe.t_min, probe.t_max)
            len == Len(self.objects)
        IN  /\ out.rec.some <=> reports # {}
            /\ out.rec.some =>
                  /\ out.rec \in reports
                  /\ \A h \in reports : ~Lt(h.t, out.rec.t)
            /\ Len(out.scanned) = len
            /\ \A k \in 1..len :
                  /\ out.scanned[k].object = k
                  /\ k = 1 => out.scanned[k].t_max = probe.t_max
                  /\ k > 1 => ~Lt(out.scanned[k - 1].t_max, out.scanned[k].t_max)
                  /\ out.scanned[k].hit.some
                        => ~Lt(out.scanned[k].t_max, out.scanned[k].hit.t)
            /\ DistinctDistances(self, probe.r, probe.t_min, probe.t_max)
                  => \A f \in Orders(len) :
                        RegionHit(Built(self.objects, f, len), probe.r, probe.t_min,
                                  probe.t_max).rec = out.rec

\* Three spheres are hit at distinct distances, the nearest of them is the
\* first of the list, and the farther ones that follow do not replace it
C12_Witness ==
    /\ Scanned
    /\ Len(probe.self.objects) = 3
    /\ Cardinality(Reports(probe.self, probe.r, probe.t_min, probe.t_max)) = 3
    /\ DistinctDistances(probe.self, probe.r, probe.t_min, probe.t_max)
    /\ probe.out.scanned[1].hit.some
    /\ ~probe.out.scanned[2].hit.some
    /\ ~probe.out.scanned[3].hit.some
    /\ probe.out.rec = probe.out.scanned[1].hit

-----------------------------------------------------------------------------
(* Properties of the path integrators *)

ColorProbe == probe.fn = "ray_color"

\* Every one of the max_depth queries of the call hits
AllHit == \A k \in 1..probe.max_depth : probe.world.hits[k]

\* The bounce of the first miss: the number of hits before it
FirstMiss ==
    CHOOSE k \in 0..(probe.max_depth - 1) :
        ~probe.world.hits[k + 1] /\ \A j \in 1..k : probe.world.hits[j]

\* The ray of bounce k of the path
RECURSIVE NthRay(_)
NthRay(k) == IF k = 0 THEN probe.r ELSE Bounce(probe.world, NthRay(k - 1))

\* C13: called with depth 0 the path integrator returns exactly black for
\* every ray and scene without querying the scene, and for any depth d it
\* returns black whenever every one of the d bounces hits an object. Stated of
\* ray_color_it and of the recursive ray_color.
C13_BlackAtDepth ==
    ColorProbe =>
        /\ probe.max_depth = 0 =>
              /\ probe.it = [color |-> BLACK, queries |-> 0]
              /\ probe.rec = [color |-> BLACK, queries |-> 0]
        /\ AllHit => (probe.it.color = BLACK /\ probe.rec.color = BLACK)

\* Three bounces, each of which hits, under the sky: black after three queries
C13_Witness ==
    /\ ColorProbe
    /\ probe.max_depth = 3
    /\ AllHit
    /\ probe.world.background_color = SKY
    /\ probe.it = [color |-> BLACK, queries |-> 3]

\* The colour c is the colour b attenuated k times: c = 0.5^k * b
Halved(c, b, k) == \A i \in 1..3 : c[i] * 2^k = b[i]

\* What both integrators do with the queries: black after max_depth queries
\* when all of them hit, else they stop at the first miss, at bounce k, with
\* 0.5^k times their background colour of the k-th ray
C18_Transport ==
    /\ probe.it.queries <= probe.max_depth
    /\ probe.rec.queries <= probe.max_depth
    /\ AllHit =>
          /\ probe.it = [color |-> BLACK, queries |-> probe.max_depth]
          /\ probe.rec = [color |-> BLACK, queries |-> probe.max_depth]
    /\ ~AllHit =>
          /\ probe.it.queries = FirstMiss + 1
          /\ probe.rec.queries = FirstMiss + 1
          /\ Halved(probe.it.color,
                    lerp(WHITE, probe.world.background_color, SkyT(NthRay(FirstMiss))),
                    FirstMiss)
          /\ Halved(probe.rec.color, lerp(WHITE, SKY, SkyT(NthRay(FirstMiss))),
                    FirstMiss)

-----------------------------------------------------------------------------
(* Properties of Sphere::hit *)

SphereProbe == probe.fn = "Sphere::hit"

\* The discriminant half_b^2 - a * c of the ray against the sphere
Discriminant(self, r) ==
    LET oc == VecSub(r.orig, self.center)
        half_b == dot(oc, r.dir)
    IN  half_b * half_b
          - length_squared(r.dir) * (length_squared(oc) - self.radius * self.radius)

\* The distance of the centre of the sphere along the ray
Along(self, r) == dot(VecSub(self.center, r.orig), r.dir)

\* The ray has a unit direction and runs through the centre of the sphere,
\* which lies ahead of its origin and farther than the radius
Aimed(self, r) ==
    /\ length_squared(r.dir) = 1
    /\ \A k \in 1..3 : self.center[k] = r.orig[k] + Along(self, r) * r.dir[k]
    /\ self.radius > 0
    /\ Along(self, r) > self.radius

\* C14: Sphere::hit for a ray with unit direction aimed at the centre of a
\* sphere of radius r whose centre is at distance d > r along the ray, with
\* t_min <= d - r <= t_max, returns a hit with t = d - r, front_face = true,
\* the point at d - r along the ray and the normal equal to the negated
\* direction; for a ray whose discriminant is negative it returns no hit.
C14_AimedHit ==
    SphereProbe =>
        LET self == probe.self
            r == probe.r
            t == Fin(Along(self, r) - self.radius)
        IN  /\ (Aimed(self, r) /\ Ge(t, probe.t_min) /\ Ge(probe.t_max, t)) =>
                  /\ probe.out.some
                  /\ probe.out.t = t
                  /\ probe.out.front_face
                  /\ probe.out.p = at(r, t)
                  /\ probe.out.normal = FinVec(<<-r.dir[1], -r.dir[2], -r.dir[3]>>)
            /\ Discriminant(self, r) < 0 => probe.out = None

\* The ray from the origin down the z axis meets the sphere of radius 2
\* around (0, 0, -8) at t = 6, on its front face, with the normal (0, 0, 1)
C14_Witness ==
    /\ SphereProbe
    /\ probe.self.center = <<0, 0, -8>> /\ probe.self.radius = 2
    /\ probe.r.orig = <<0, 0, 0>> /\ probe.r.dir = <<0, 0, -1>>
    /\ probe.t_min = Fin(4) /\ probe.t_max = PosInf
    /\ probe.out.some
    /\ probe.out.t = Fin(6)
    /\ probe.out.front_face
    /\ probe.out.p = FinVec(<<0, 0, -6>>)
    /\ probe.out.normal = FinVec(<<0, 0, 1>>)

\* C20: Sphere::hit called with a ray whose direction has zero length
\* (a == 0) returns no hit, for every sphere, origin and [t_min, t_max]; it
\* never returns a hit record whose t is NaN or infinite.
C20_ZeroDirectionMisses ==
    SphereProbe =>
        /\ length_squared(probe.r.dir) = 0 => ~probe.out.some
        /\ probe.out.some => probe.out.t.s = 0

-----------------------------------------------------------------------------
(* Termination of the dispatch strategies *)

\* The call has ended: it returned Ok or an error, or it panicked
Ended == result # NoResult

\* The call has entered pixel loops that lie beyond the bounds of the model
Beyond == context # NoContext /\ ~Followed(args, context)

\* The dispatching thread of render_threaded_naive waits: in crossbeam::scope
\* for a worker that has not ended, or in rx.recv() on an empty channel that
\* still has a sender
DispatcherBlocked ==
    /\ Strategy = "render_threaded_naive"
    /\ ~Ended
    /\ \/ pc = "join" /\ ~AllFinished
       \/ pc = "collect" /\ chan = <<>> /\ Senders > 0

PixelBytes(x, y) == {3 * (y * Width + x) + k : k \in 0..2}

\* The tile of the context
TilePixels ==
    (context.start_x..(context.end_x - 1)) \X (context.start_y..(context.end_y - 1))

\* C16: for every strategy and every pixel (x, y) of the requested tile the
\* three bytes of the pixel are stored at offsets 3 * (y * width + x), + 1 and
\* + 2, width being the width of the image, and no write falls outside
\* [0, width * height * 3); for render_naive this holds for every tile of the
\* context.
C16_RowMajorTile ==
    (/\ pc = "returned"
     /\ Strategy \in Strategies
     /\ context.built
     /\ ExactBuffer /\ OpTotal)
    => /\ result = Ok
       /\ \A p \in TilePixels : \A j \in PixelBytes(p[1], p[2]) :
            /\ j \in DOMAIN writes
            /\ writes[j] # <<>>
            /\ pixels[j] = convert_pixel(RenderOp(args, p[1], p[2]))[j - 3 * (p[2] * Width + p[1]) + 1]
\* floor(256 * clamp(sqrt(c / Scale), 0, 0.999)) = b, for a finite c >= 0 in
\* units of 1 / Scale: sqrt(c / Scale) <= 0.999 iff c * Scale <= 999 * 999, and
\* then b <= 256 * sqrt(c / Scale) < b + 1 iff
\* b * b * Scale <= 65536 * c < (b + 1) * (b + 1) * Scale.
IsFloorOfClampedRoot(c, b) ==
    IF c * Scale <= 999 * 999
    THEN b * b * Scale <= 65536 * c /\ 65536 * c < (b + 1) * (b + 1) * Scale
    ELSE b * Scale <= 999 * 256 /\ 999 * 256 < (b + 1) * Scale

\* x <= y on f32
Le(x, y) == ~IsNaN(x) /\ ~IsNaN(y) /\ ~Lt(y, x)

\* C17: convert_pixel maps each channel c to the byte
\* floor(clamp(sqrt(c), 0, 0.999) * 256): the byte is in 0..255, is 0 for c = 0,
\* is 255 for every c >= 1 and is non-decreasing in c; clamp(x, lo, hi) with
\* lo <= hi returns x when lo <= x <= hi, lo when x < lo and hi when x > hi.
C17_ConvertPixel ==
    /\ probe.fn = "convert_pixel" =>
          \A k \in 1..3 :
             LET c == probe.pixel[k]
                 b == probe.out[k]
             IN  /\ b \in 0..255
                 /\ c = Fin(0) => b = 0
                 /\ Le(Fin(Scale), c) => b = 255
                 /\ (c.s = 0 /\ c.v >= 0) => IsFloorOfClampedRoot(c.v, b)
                 /\ \A d \in {Fin(c.v - 1), Fin(0 - 16), NegInf} : Lt(d, c) => ConvertF32(d) <= b
                 /\ Lt(c, PosInf) => b <= ConvertF32(PosInf)
    /\ (probe.fn = "clamp" /\ Le(probe.min, probe.max)) =>
          /\ (Le(probe.min, probe.x) /\ Le(probe.x, probe.max)) => probe.out = probe.x
          /\ Lt(probe.x, probe.min) => probe.out = probe.min
          /\ Lt(probe.max, probe.x) => probe.out = probe.max

\* convert_pixel has converted a channel strictly between 0 and 1 to a byte
\* strictly between 0 and 255, and a channel above 1 to 255
C17_Witness ==
    /\ probe.fn = "convert_pixel"
    /\ probe.pixel[1] = Fin(MaxChannel)
    /\ probe.out[1] = 255
    /\ probe.pixel[3] = Fin(210)
    /\ probe.out[3] = 117
\* C19: when the image is 1 pixel wide, a render requested under a parallel
\* compute mode falls back to the single-threaded render_naive: no worker is
\* started and no other strategy is entered.
C19_NarrowFallsBack ==
    (/\ args.entry = "render"
     /\ args.env # "Naive"
     /\ Width = 1
     /\ context.built)
    => /\ calls = <<"render", "render_naive">>
       /\ tasks = <<>>
\* The outward normal of a sphere at the point p of its surface
OutwardNormal(self, p) ==
    <<Div(Sub(p[1], Fin(self.center[1])), self.radius),
      Div(Sub(p[2], Fin(self.center[2])), self.radius),
      Div(Sub(p[3], Fin(self.center[3])), self.radius)>>

NegVec(v) == <<Neg(v[1]), Neg(v[2]), Neg(v[3])>>

\* The record of the probe is as set_face_normal leaves it
FaceNormalSet ==
    LET rec == probe.out
        outward_normal == OutwardNormal(probe.self, rec.p)
        front == Lt(DotF(probe.r.dir, outward_normal), Fin(0))
    IN  /\ rec.front_face = front
        /\ rec.normal = IF front THEN outward_normal ELSE NegVec(outward_normal)

\* C21: after set_face_normal(ray, outward_normal) front_face is true iff
\* dot(ray.dir, outward_normal) < 0, the stored normal is outward_normal when
\* front_face and its negation otherwise, and so dot(ray.dir, normal) <= 0 for
\* every hit record a sphere returns.
C21_NormalOpposesRay ==
    (probe.fn = "Sphere::hit" /\ probe.out.some)
    => /\ FaceNormalSet
       /\ Le(DotF(probe.r.dir, probe.out.normal), Fin(0))
\* C22: after recalculate_bounds on a region whose bounding_box was not
\* tracked incrementally (a region read back with an arbitrary stored box),
\* bounding_box is the union, componentwise minimum and maximum, of the bounds
\* of all objects of the region.
C22_RecalculatedUnion ==
    (probe.fn = "recalculate_bounds" /\ region.objects # <<>>)
    => region.bounding_box = UnionBounds(PushedObjects)
\* The entry and exit distances of axis k, from that axis's box bounds, ray
\* origin component and inverse direction component
Slab(self, r, k) ==
    LET t1 == Mul(Sub(self.box_min[k], Fin(r.orig[k])), r.invdir[k])
        t2 == Mul(Sub(self.box_max[k], Fin(r.orig[k])), r.invdir[k])
    IN  [entry |-> fmin(t1, t2), exit |-> fmax(t1, t2)]

\* The intersection of the three per-axis intervals is not empty, reaches
\* t >= 0, and its near edge is below t_max
SlabsMeet(self, r, t_max) ==
    LET x == Slab(self, r, 1)
        y == Slab(self, r, 2)
        z == Slab(self, r, 3)
        entry == fmax(fmax(x.entry, y.entry), z.entry)
        exit == fmin(fmin(x.exit, y.exit), z.exit)
    IN  Ge(exit, fmax(Fin(0), entry)) /\ Lt(entry, t_max)

\* C23: AABB::hit(ray, t_max) computes for each of the three axes the entry
\* and exit distances from that axis's own box bounds, ray origin component
\* and inverse direction component, and returns true iff the intersection of
\* the three intervals is non-empty, reaches t >= 0 and has its near edge
\* below t_max.
C23_SlabTest ==
    probe.fn = "AABB::hit"
    => probe.out = SlabsMeet(probe.self, probe.r, probe.t)
\* The buffer has fewer bytes than the image of the call
ShortBuffer == Width > 0 /\ Height > 0 /\ args.len < Width * Height * 3

\* C24: render_naive and render_threaded, called for a w x h image with a
\* buffer shorter than w * h * 3 bytes, never complete successfully:
\* render_naive panics and render_threaded panics or returns an error;
\* neither returns Ok and leaves pixels unrendered.
C24_ShortBufferFails ==
    (pc = "returned" /\ ShortBuffer)
    => /\ Strategy = "render_naive" => result.kind = "panic"
       /\ Strategy = "render_threaded" => result.kind \in {"panic", "Err"}
\* The call ended with the compute error e, returned by a strategy or wrapped
\* by render
EndedWith(e) ==
    /\ pc = "returned"
    /\ result.kind = "Err"
    /\ e \in {result.error, result.cause}

ColumnStrategy == Strategy = "render_threaded_naive"

MetalDirection ==
    VecAdd(reflect(probe.r_in.dir, probe.rec.normal), VecScale(probe.self.fuzz, probe.rnd))

\* C26: scatter returns None only for Metal, and for Metal exactly when the
\* dot product of the scattered direction with the hit normal is not positive:
\* Lambert always returns Some with its albedo as attenuation, Dielectric
\* always Some with white, and Metal Some with its albedo iff that dot
\* product is > 0.
C26_Scatter ==
    probe.fn = "scatter"
    => LET m == probe.self
           out == probe.out
       IN  /\ ~out.some => m.kind = "Metal"
           /\ m.kind = "Lambert" => out.some /\ out.attenuation = m.albedo
           /\ m.kind = "Dielectric" => out.some /\ out.attenuation = WHITE
           /\ m.kind = "Metal" =>
                /\ out.some <=> dot(MetalDirection, probe.rec.normal) > 0
                /\ out.some => out.attenuation = m.albedo /\ out.dir = MetalDirection

\* A metal whose mirror direction leaves the surface has absorbed the ray
\* because of its fuzz
C26_Witness ==
    /\ probe.fn = "scatter"
    /\ probe.self.kind = "Metal"
    /\ probe.self.fuzz > 0
    /\ dot(reflect(probe.r_in.dir, probe.rec.normal), probe.rec.normal) > 0
    /\ ~probe.out.some
\* No byte of the buffer has been written since the call
BufferUntouched ==
    /\ pixels = Buffer(args.len)
    /\ \A j \in DOMAIN writes : writes[j] = <<>>

\* C27: when render_threaded_naive returns ComputeError::ThreadPanicked the
\* buffer is byte for byte what it was before the call: the collector writes
\* only after every worker has been joined without a panic.
C27_BufferKeptOnPanic ==
    ColumnStrategy
    => /\ EndedWith("ThreadPanicked") => BufferUntouched
       /\ ~BufferUntouched => /\ AllFinished /\ ~AnyPanicked
                              /\ pc \in {"collect", "returned"}

\* Both workers of a call have computed pixels, one has panicked later, and
\* the call has returned ThreadPanicked
C27_Witness ==
    /\ ColumnStrategy
    /\ EndedWith("ThreadPanicked")
    /\ Cardinality(DOMAIN tasks) = 2
    /\ Len(chan) >= 2
    /\ \E i \in DOMAIN tasks : tasks[i].status = "done"
    /\ BufferUntouched
\* The pixels whose messages are in the channel
Queued == {<<chan[k].x, chan[k].y>> : k \in DOMAIN chan}
\* Every pixel of the camera's image
ImagePixels == (0..(context.film_width - 1)) \X (0..(context.film_height - 1))

\* C28: in render_threaded_naive the first receive happens only after all
\* workers have finished, the channel then holds exactly width*height messages,
\* one for each pixel and none twice; every receive of the collection loop
\* finds a message and the Communication error is unreachable.
C28_AllSentBeforeReceive ==
    ColumnStrategy
    => /\ pc = "collect"
          => /\ AllFinished /\ ~AnyPanicked
             /\ chan # <<>>
             /\ Len(chan) + received = context.film_width * context.film_height
       /\ (pc = "collect" /\ received = 0)
          => /\ Queued = ImagePixels
             /\ Cardinality(Queued) = Len(chan)
       /\ received > 0 => pc \in {"collect", "returned"}
       /\ ~EndedWith("Communication")

\* The collector is about to receive its first message of a full-size image
\* that two or more workers have rendered
C28_Witness ==
    /\ ColumnStrategy
    /\ pc = "collect" /\ received = 0
    /\ Cardinality(DOMAIN tasks) >= 2
    /\ Len(chan) = MaxW * MaxH
\* The preconditions of render in the order of the claim, each with its error
CheckOrder ==
    << [violated |-> args.samples_per_pixel = 0, error |-> "InvalidParameter"],
       [violated |-> args.max_depth = 0, error |-> "InvalidParameter"],
       [violated |-> Width = 0 \/ Height = 0, error |-> "BufferSize"],
       [violated |-> Width > 4096 \/ Height > 4096, error |-> "BufferSize"],
       [violated |-> args.objects_empty, error |-> "InvalidScene"] >>
Violated == {k \in DOMAIN CheckOrder : CheckOrder[k].violated}
FirstViolated == CHOOSE k \in Violated : \A j \in Violated : k <= j
SeveralViolated == Cardinality(Violated) >= 2

\* C29 as stated: when several preconditions of render are violated at once
\* the error reported is the one of the first failing check in the order
\* samples == 0, max_depth == 0, zero dimension, dimension > 4096, empty scene;
\* an empty scene is reported only when all numeric parameters are valid.
C29_AsStated ==
    (args.entry = "render" /\ pc = "returned")
    => /\ Violated # {} => result = Err(CheckOrder[FirstViolated].error)
       /\ result = Err("InvalidScene") => Violated = {5}

\* C29, amended: in a build without debug assertions the error returned is the
\* one of the first failing check in that order; in a build with debug
\* assertions the first failing check panics and no error is returned.  In
\* both builds the call ends before any compute.
C29_FirstFailingCheck ==
    (args.entry = "render" /\ pc = "returned")
    => /\ Violated # {}
          => /\ NoCompute
             /\ IF args.debug_assertions THEN result.kind = "panic"
                ELSE result = Err(CheckOrder[FirstViolated].error)
       /\ Violated = {} => result.error \notin PreconditionErrors
       /\ result = Err("InvalidScene") => Violated = {5}

\* render has returned InvalidParameter for a call without samples that also
\* has a zero width and an empty scene
C29_Witness ==
    /\ pc = "returned"
    /\ args.entry = "render"
    /\ args.samples_per_pixel = 0 /\ Width = 0 /\ args.objects_empty
    /\ SeveralViolated
    /\ ~args.debug_assertions
    /\ result = Err("InvalidParameter")
\* What the loop of Region::hit returns when it is run without the test of
\* the bounding box
PlainScan(self, r, t_min, t_max) ==
    Scan(self.objects, r, t_min, t_max, ScanStart(t_max), 1).rec

\* C30: for every region built by push from spheres, every ray and every
\* t_min <= t_max, Region::hit returns what the plain linear scan over the
\* objects without the pre-check returns: a ray that hits some sphere within
\* [t_min, t_max] is never rejected by the test of the bounding box.
C30_PreCheckSound ==
    (RegionProbe /\ SphereRegion(probe.self) /\ Le(probe.t_min, probe.t_max))
        => probe.out.rec = PlainScan(probe.self, probe.r, probe.t_min, probe.t_max)
====
